---- MODULE Spec2Model ----
(***************************************************************************)
(* GasGuard: the per-pin GPIO write queue (hardware/gpioQueue.js), the SMS  *)
(* alert manager (services/alertManager.js), the control loop of the       *)
(* hardware manager with its LEDs and buzzer, the gas sensor channel and   *)
(* the GPS service (hardware/gpsAsync.js) with its connection, its         *)
(* persistence file and the position it feeds to the notifications, as     *)
(* state machines.                                                         *)
(* Time is a millisecond clock `now`; a JavaScript timer is a deadline     *)
(* that may fire at any instant at or after it; an `await` on an external  *)
(* collaborator is a position (pc) that a later step leaves.               *)
(***************************************************************************)
EXTENDS Integers, Sequences, FiniteSets, TLC

\* ---------------------------------------------------------------- bounds
MaxOps == 3          \* enqueue calls explored
MaxClears == 2       \* clearAll calls explored
MaxNow == 1200       \* last clock value explored by the GPIO specification
TickMs == 50         \* clock granularity of the GPIO specification

MaxEpisodes == 2     \* non-normal episodes explored by the alert specification
MaxTicks == 2        \* clock steps explored by the alert specification
MaxCount == 2        \* cap on detectionState.detectionCount

MaxPpmIndex == 32    \* readings explored are 0, 10, ..., 10 * MaxPpmIndex
MaxPolls == 3        \* readSensorData runs explored by the control loop
MaxTimers == 3       \* buzzer pattern timers explored
MaxCalls == 3        \* start() / stop() calls explored on the buzzer alone
MaxHoldTicks == 2    \* clock steps explored by the buzzer specification
OperatorPolls == 2   \* polls explored together with acknowledgeAlert()
MaxInits == 2        \* GasSensor.initialize() calls explored
MaxSensorTicks == 3  \* half preheat periods explored
MaxConnectTicks == 11 \* reconnect delays explored
MaxPersistTicks == 2 \* stale-check periods explored with persistence
MaxNotifyTicks == 4 \* stale-check periods explored with notifications
MaxGpsTicks == 5     \* stale-check periods explored
HoldMs == 3000       \* a configured holdTime > 0

Pins == {17, 27}
OpIds == 1..MaxOps

\* ------------------------------------------------------ program constants
minDelay == 100      \* GPIOQueue.minDelay
maxRetries == 2      \* operation.maxRetries
retryBackoff == 100  \* setTimeout(resolve, 100) in the catch branch
SMS_TRIGGER_DELAY == 5000
SMS_COOLDOWN == 300000
readingIntervalMs == 2000

\* Date.now() at construction: any value >= minDelay
StartNow == 10 * minDelay
\* the clock of the alert specification moves by half the trigger delay, by
\* the trigger delay or by a whole cooldown
ShortStep == SMS_TRIGGER_DELAY \div 2
\* the deeper alert specification explores one more episode and clock step
DeepEpisodes == MaxEpisodes + 1
DeepTicks == MaxTicks + 1

Levels == {"normal", "low", "critical"}
Episodes == 1..DeepEpisodes

VARIABLES
  now,            \* Date.now()
  queues,         \* GPIOQueue.queues: pin -> sequence of operations (ids)
  processing,     \* GPIOQueue.processing: pin -> truthy?
  lastOperation,  \* GPIOQueue.lastOperation: pin -> time, 0 when unset
  ops,            \* operation objects: pin, retries, state of the promise
  workers,        \* processQueue invocations, one slot per enqueue call
  nextOp,         \* id the next enqueue call gives its operation
  attempts,       \* history: executeOperation calls made for each operation
  lastEnd,        \* history: pin -> time the last operation on it ended
  clearMark,      \* history: first op id enqueued after a clearAll, 0 if none
  clears,         \* history: clearAll calls made
  detectionState, \* AlertManager.detectionState
  persistenceTimer, \* AlertManager.persistenceTimer: timer id, 0 when null
  timers,         \* persistence timers pending in the event loop
  trig,           \* triggerSMSAlert invocations: episode -> position, level
  epCount,        \* history: non-normal episodes (timers) started so far
  curEp,          \* history: the current episode, 0 while normal
  fired,          \* history: episodes whose persistence timer fired
  shortEnded,     \* history: episodes ended before SMS_TRIGGER_DELAY
  cooldownSkips,  \* history: firings skipped by the cooldown check
  sends,          \* history: sendGasLeakAlert calls (level, time, episode)
  lastSMSLevel,   \* history: level of the dispatch that set lastSMSTime
  lastReset,      \* history: the level change that last cleared smsTriggered
  ticks,          \* history: clock steps of the alert specification
  preheated,      \* GasSensor.isPreheated of both sensors
  sensorData,     \* HardwareManager.sensorData: ppm of each channel, level
  currentAlertLevel, \* HardwareManager.currentAlertLevel
  immediates,     \* setImmediate callbacks pending, in FIFO order
  changes,        \* history: level changes readSensorData detected
  events,         \* history: alertLevelChange events emitted
  polls,          \* history: readSensorData runs that evaluated readings
  ledPins,        \* output of the LED pins: colour -> 0 / 1
  currentColor,   \* LEDController.currentColor
  ledCalls,       \* setColor invocations that have not returned
  ledQueues,      \* GPIO writes the LED pins wait for: colour -> sequence
  lastColor,      \* history: colour of the most recent setColor call
  ledCount,       \* history: setColor calls made
  buzzerOut,      \* output of the buzzer pin
  isActive,       \* BuzzerController.isActive
  currentPattern, \* BuzzerController.currentPattern, "null" when null
  patternStep,    \* BuzzerController.patternStep
  buzzerQueue,    \* GPIO writes the buzzer pin waits for, with their waiter
  stepTimers,     \* pattern timers pending: id, kind, tracked, stop epoch
  timerCount,     \* history: pattern timers created
  stopEpoch,      \* history: stop() calls that have resolved
  staleStep,      \* history: a step callback older than a resolved stop()
                  \*          advanced the pattern or scheduled a timer
  isHolding,      \* BuzzerController.isHolding
  holdTimer,      \* BuzzerController.holdTimer: its deadline, 0 when null
  holdTime,       \* patterns[p].holdTime of the alert patterns
  alertStartTime, \* BuzzerController.alertStartTime, 0 when null
  calls,          \* history: the last start() / stop() call and their count
  clearedAt,      \* history: when the level last cleared to normal with a
                  \*          pattern active, 0 otherwise
  acked,          \* history: acknowledgeAlert() has resolved and no level
                  \*          change was handled since
  isInitialized,  \* GasSensor.isInitialized
  isPreheated,    \* GasSensor.isPreheated
  preheatStartTime, \* GasSensor.preheatStartTime, 0 when null
  preheatTimers,  \* deadlines of the pending startPreheating() timers
  calibration,    \* GasSensor.calibration: ro, lastCalibrated (0 when null)
  reading,        \* what the last read() returned, and how long after the
                  \*          most recent initialize()
  autoCal,        \* position of the running autoCalibrate()
  inits,          \* history: initialize() calls
  sensorCall,     \* history: the last GasSensor call and the state it found
  currentData,    \* GPSAsync.currentData (hdop in tenths, 0 for null)
  lastKnownLocation, \* GPSAsync.lastKnownLocation
  isConnected,    \* GPSAsync.isConnected
  lastNMEATime,   \* GPSAsync.lastNMEATime, 0 when null
  lastDecodedTime, \* history: when a parser last accepted a sentence
  staleCheckAt,   \* when staleCheckInterval fires next, 0 before it is set
  saves,          \* scheduled savePersistedLocation() callbacks
  gpsSentence,    \* history: the last line processed
  connectionAttempts, \* GPSAsync.connectionAttempts
  reconnectTimer, \* GPSAsync.reconnectTimer: its deadline, 0 when null
  queuedConnects, \* setImmediate callbacks of startAsyncConnection() queued
  connecting,     \* connectToGPS() calls awaiting the device
  port,           \* GPSAsync.port: "null", "open" or "closed"
  openPorts,      \* history: serial ports that are open
  closeEvents,    \* 'close' events of closed ports not yet delivered
  isShuttingDown, \* GPSAsync.isShuttingDown
  shutdownPc,     \* position of shutdown()
  reconnectDelays, \* history: delays of the reconnect timers scheduled
                  \*          since the last successful connection
  openedLate,     \* history: a port was opened after shutdown() was called
  persistedFile,  \* the persistence file: <<>> or the tuple of its JSON object
  restored,       \* history: the file the last loadPersistedLocation() read
                  \*          and the lastKnownLocation it left
  gpsData,        \* HardwareManager.gpsData
  dataEvents      \* setImmediate callbacks of parseGGA that emit 'data'

gpioVars == <<queues, processing, lastOperation, ops, workers, nextOp,
              attempts, lastEnd, clearMark, clears>>

alertVars == <<detectionState, persistenceTimer, timers, trig, epCount, curEp,
               fired, shortEnded, cooldownSkips, sends,
               lastSMSLevel, lastReset, ticks>>

ctlVars == <<preheated, sensorData, currentAlertLevel, immediates, changes,
             events, polls>>

ledVars == <<ledPins, currentColor, ledCalls, ledQueues, lastColor, ledCount>>

buzzerVars == <<buzzerOut, isActive, currentPattern, patternStep, buzzerQueue,
                stepTimers, timerCount, stopEpoch, staleStep, isHolding,
                holdTimer, holdTime, alertStartTime, calls>>

hwVars == <<ctlVars, ledVars, buzzerVars>>

opVars == <<clearedAt, acked>>

sensorVars == <<isInitialized, isPreheated, preheatStartTime, preheatTimers,
                calibration, reading, autoCal, inits, sensorCall>>
gpsVars == <<currentData, lastKnownLocation, isConnected, lastNMEATime,
             lastDecodedTime, staleCheckAt, saves, gpsSentence>>
connVars == <<connectionAttempts, reconnectTimer, queuedConnects, connecting,
              port, openPorts, closeEvents, isShuttingDown, shutdownPc,
              reconnectDelays, openedLate>>
fileVars == <<persistedFile, restored>>
hubVars == <<gpsData, dataEvents>>
devVars == <<opVars, sensorVars, gpsVars, connVars, fileVars, hubVars>>

vars == <<now, gpioVars, alertVars, hwVars, devVars>>

Idle == [pc |-> "idle", pin |-> 0, op |-> 0, wake |-> 0]

NoOp == [pin |-> 0, retries |-> 0, state |-> "none"]

\* constructor()
GPIOInit ==
  /\ queues = [p \in Pins |-> <<>>]
  /\ processing = [p \in Pins |-> FALSE]
  /\ lastOperation = [p \in Pins |-> 0]
  /\ ops = [o \in OpIds |-> NoOp]
  /\ workers = [w \in OpIds |-> Idle]
  /\ nextOp = 1
  /\ attempts = [o \in OpIds |-> 0]
  /\ lastEnd = [p \in Pins |-> 0]
  /\ clearMark = 0
  /\ clears = 0

\* operation.resolve() / operation.reject(): settling a settled promise is
\* a no-op.
Settle(O, o, s) ==
  IF O[o].state = "pending" THEN [O EXCEPT ![o].state = s] ELSE O

\* queue.shift(): removes the head, whichever operation that is.
Shift(q) == IF q = <<>> THEN q ELSE Tail(q)

\* processQueue from the while test to the next await, for worker w on pin
\* p, with Q, P the values of queues and processing at that point.
WhileLoop(w, p, Q, P) ==
  IF Q[p] = <<>>
  THEN /\ workers' = [workers EXCEPT ![w] = Idle]
       /\ processing' = [P EXCEPT ![p] = FALSE]
       /\ attempts' = attempts
  ELSE LET operation == Head(Q[p])
           timeSinceLast == now - lastOperation'[p]
       IN  /\ processing' = P
           /\ IF timeSinceLast < minDelay
              THEN /\ workers' = [workers EXCEPT ![w] =
                          [pc |-> "delay", pin |-> p, op |-> operation,
                           wake |-> now + (minDelay - timeSinceLast)]]
                   /\ attempts' = attempts
              ELSE /\ workers' = [workers EXCEPT ![w] =
                          [pc |-> "exec", pin |-> p, op |-> operation,
                           wake |-> 0]]
                   /\ attempts' = [attempts EXCEPT ![operation] = @ + 1]

\* enqueue(pin, value, timeout)
enqueue(pin) ==
  /\ nextOp <= MaxOps
  /\ LET o == nextOp
         Q == [queues EXCEPT ![pin] = Append(@, o)]
     IN  /\ ops' = [ops EXCEPT ![o] =
                       [pin |-> pin, retries |-> 0, state |-> "pending"]]
         /\ queues' = Q
         /\ nextOp' = nextOp + 1
         /\ lastOperation' = lastOperation
         /\ IF ~processing[pin]
            THEN WhileLoop(o, pin, Q, [processing EXCEPT ![pin] = TRUE])
            ELSE UNCHANGED <<workers, processing, attempts>>
         /\ UNCHANGED <<now, lastEnd, clearMark, clears, alertVars, hwVars, devVars>>

\* the minDelay timer of processQueue fires: executeOperation(operation)
DelayElapsed(w) ==
  /\ workers[w].pc = "delay"
  /\ now >= workers[w].wake
  /\ workers' = [workers EXCEPT ![w].pc = "exec", ![w].wake = 0]
  /\ attempts' = [attempts EXCEPT ![workers[w].op] = @ + 1]
  /\ UNCHANGED <<now, queues, processing, lastOperation, ops, nextOp,
                 lastEnd, clearMark, clears, alertVars, hwVars, devVars>>

\* executeOperation resolves: the try branch after the await
ExecSucceeds(w) ==
  /\ workers[w].pc = "exec"
  /\ LET p == workers[w].pin
         Q == [queues EXCEPT ![p] = Shift(@)]
     IN  /\ lastOperation' = [lastOperation EXCEPT ![p] = now]
         /\ ops' = Settle(ops, workers[w].op, "resolved")
         /\ queues' = Q
         /\ lastEnd' = [lastEnd EXCEPT ![p] = now]
         /\ WhileLoop(w, p, Q, processing)
  /\ UNCHANGED <<now, nextOp, clearMark, clears, alertVars, hwVars, devVars>>

\* executeOperation throws (busy, timeout, transport error): the catch branch
ExecFails(w) ==
  /\ workers[w].pc = "exec"
  /\ LET p == workers[w].pin
         o == workers[w].op
         r == ops[o].retries + 1
     IN  IF r < maxRetries
         THEN /\ ops' = [ops EXCEPT ![o].retries = r]
              /\ workers' = [workers EXCEPT ![w].pc = "backoff",
                                            ![w].wake = now + retryBackoff]
              /\ UNCHANGED <<queues, processing, lastOperation, attempts,
                             lastEnd>>
         ELSE LET Q == [queues EXCEPT ![p] = Shift(@)]
              IN  /\ ops' = Settle([ops EXCEPT ![o].retries = r], o, "rejected")
                  /\ queues' = Q
                  /\ lastOperation' = lastOperation
                  /\ lastEnd' = [lastEnd EXCEPT ![p] = now]
                  /\ WhileLoop(w, p, Q, processing)
  /\ UNCHANGED <<now, nextOp, clearMark, clears, alertVars, hwVars, devVars>>

\* the retry timer fires: back to the while test
BackoffElapsed(w) ==
  /\ workers[w].pc = "backoff"
  /\ now >= workers[w].wake
  /\ lastOperation' = lastOperation
  /\ WhileLoop(w, workers[w].pin, queues, processing)
  /\ UNCHANGED <<now, queues, ops, nextOp, lastEnd, clearMark, clears,
                 alertVars, hwVars, devVars>>

RECURSIVE RejectAll(_, _)
RejectAll(O, q) ==
  IF q = <<>> THEN O ELSE RejectAll(Settle(O, Head(q), "cleared"), Tail(q))

RECURSIVE RejectQueues(_, _)
RejectQueues(O, ps) ==
  IF ps = {} THEN O
  ELSE LET p == CHOOSE x \in ps : TRUE
       IN  RejectQueues(RejectAll(O, queues[p]), ps \ {p})

\* clearAll()
clearAll ==
  /\ clears < MaxClears
  /\ ops' = RejectQueues(ops, Pins)
  /\ queues' = [p \in Pins |-> <<>>]
  /\ processing' = [p \in Pins |-> FALSE]
  /\ clearMark' = IF clearMark = 0 THEN nextOp ELSE clearMark
  /\ clears' = clears + 1
  /\ UNCHANGED <<now, lastOperation, workers, nextOp, attempts, lastEnd,
                 alertVars, hwVars, devVars>>

\* the clock of the GPIO specification
TickGPIO ==
  /\ now + TickMs <= MaxNow
  /\ now' = now + TickMs
  /\ UNCHANGED <<gpioVars, alertVars, hwVars, devVars>>

\* ----------------------------------------------------------- AlertManager
NoTrig == [pc |-> "none", level |-> "normal"]

\* constructor()
AlertInit ==
  /\ detectionState = [level |-> "normal", startTime |-> 0, duration |-> 0,
                       smsTriggered |-> FALSE, lastSMSTime |-> 0,
                       detectionCount |-> 0]
  /\ persistenceTimer = 0
  /\ timers = {}
  /\ trig = [e \in Episodes |-> NoTrig]
  /\ epCount = 0
  /\ curEp = 0
  /\ fired = {}
  /\ shortEnded = {}
  /\ cooldownSkips = {}
  /\ sends = {}
  /\ lastSMSLevel = "normal"
  /\ lastReset = "none"
  /\ ticks = 0

\* a clearPersistenceTimer that drops the handle without clearTimeout
clearPersistenceTimerLeak(T, h) == T

\* clearPersistenceTimer(): the timers left pending in the event loop when
\* the handle is h (the handle itself becomes null)
clearPersistenceTimer(T, h) == IF h # 0 THEN {t \in T : t.id # h} ELSE T

\* resetDetectionState(): the new detectionState
resetDetectionState(ds) ==
  [level |-> "normal", startTime |-> 0, duration |-> 0,
   smsTriggered |-> FALSE, lastSMSTime |-> ds.lastSMSTime,
   detectionCount |-> 0]

\* updateAlertLevel, "New alert level detected - start tracking"
NewDetection(ds, newLevel) ==
  [level |-> newLevel, startTime |-> now, duration |-> 0,
   smsTriggered |-> FALSE, lastSMSTime |-> ds.lastSMSTime,
   detectionCount |-> 1]

\* a same-level update that rebuilds the state as a new detection does
SameLevelUpdateReset(ds) ==
  [ds EXCEPT !.duration = now - ds.startTime, !.detectionCount = @ + 1,
             !.smsTriggered = FALSE]

\* updateAlertLevel, "Same level continues - update duration"
SameLevelUpdate(ds) ==
  [ds EXCEPT !.duration = now - ds.startTime, !.detectionCount = @ + 1]

\* triggerSMSAlert, "Check cooldown period"
CooldownActive(ds) ==
  ds.lastSMSTime # 0 /\ now - ds.lastSMSTime < SMS_COOLDOWN

\* updateAlertLevel(newLevel, sensorData): what the call does to the
\* AlertManager (the method has no await before its last assignment)
updateAlertLevelState(newLevel, maxEpisodes) ==
  LET previousLevel == detectionState.level
      cleared == clearPersistenceTimer(timers, persistenceTimer)
      endsShort == IF curEp # 0
                      /\ now - detectionState.startTime < SMS_TRIGGER_DELAY
                   THEN {[ep |-> curEp,
                          deadline |-> detectionState.startTime
                                         + SMS_TRIGGER_DELAY]}
                   ELSE {}
  IN
  /\ IF newLevel # previousLevel
     THEN /\ shortEnded' = shortEnded \cup endsShort
          /\ lastReset' = IF ~detectionState.smsTriggered THEN lastReset
                          ELSE IF newLevel = "normal" THEN "toNormal"
                          ELSE "toOther"
          /\ IF newLevel = "normal"
             THEN /\ detectionState' = resetDetectionState(detectionState)
                  /\ timers' = clearPersistenceTimer(cleared, 0)
                  /\ persistenceTimer' = 0
                  /\ curEp' = 0
                  /\ UNCHANGED epCount
             ELSE /\ epCount < maxEpisodes
                  /\ detectionState' = NewDetection(detectionState, newLevel)
                  /\ timers' = clearPersistenceTimer(cleared, 0) \cup
                        {[id |-> epCount + 1, level |-> newLevel,
                          deadline |-> now + SMS_TRIGGER_DELAY]}
                  /\ persistenceTimer' = epCount + 1
                  /\ epCount' = epCount + 1
                  /\ curEp' = epCount + 1
     ELSE /\ newLevel # "normal"
          /\ detectionState.detectionCount < MaxCount
          /\ detectionState' = SameLevelUpdate(detectionState)
          /\ lastReset' = IF detectionState.smsTriggered
                             /\ ~detectionState'.smsTriggered
                          THEN "sameLevel" ELSE lastReset
          /\ UNCHANGED <<persistenceTimer, timers, epCount, curEp,
                         shortEnded>>
  /\ UNCHANGED <<trig, fired, cooldownSkips, sends, lastSMSLevel, ticks>>

\* updateAlertLevel(newLevel, sensorData) called on the AlertManager alone
updateAlertLevel(newLevel, maxEpisodes) ==
  /\ updateAlertLevelState(newLevel, maxEpisodes)
  /\ UNCHANGED <<now, gpioVars, devVars, hwVars>>

\* the persistence timer fires: triggerSMSAlert(level, sensorData) up to its
\* first await (the handle persistenceTimer is not reset by the callback)
PersistenceTimerFires ==
  /\ \E t \in timers :
       /\ now >= t.deadline
       /\ timers' = timers \ {t}
       /\ fired' = fired \cup {t.id}
       /\ IF detectionState.smsTriggered
          THEN UNCHANGED <<trig, cooldownSkips>>
          ELSE IF CooldownActive(detectionState)
          THEN /\ cooldownSkips' = cooldownSkips \cup
                    {[ep |-> t.id, level |-> t.level,
                      lastLevel |-> lastSMSLevel]}
               /\ trig' = trig
          ELSE /\ \E isConfigured \in BOOLEAN :
                    trig' = IF isConfigured
                            THEN [trig EXCEPT ![t.id] =
                                    [pc |-> "prepare", level |-> t.level]]
                            ELSE trig
               /\ cooldownSkips' = cooldownSkips
  /\ UNCHANGED <<now, gpioVars, devVars, hwVars, detectionState, persistenceTimer, epCount,
                 curEp, shortEnded, sends, lastSMSLevel, lastReset, ticks>>

\* the contact triggerSMSAlert builds from settings.phone
ProfileContact == [type |-> "profile", name |-> "profile"]

\* what the repository holds: whether settings.phone is set, the rows of
\* Contact.getInternalContacts(2) and of Contact.getExternalContacts()
Repository(phone, internal, external) ==
  [phone |-> phone, internal |-> internal, external |-> external]

\* a repository without contacts and one with the profile phone only
BasicRepositories ==
  {Repository(phone, <<>>, <<>>) : phone \in BOOLEAN}

\* repositories with up to two internal contacts and one external contact
Repositories ==
  {Repository(phone, internal, external) :
     phone \in BOOLEAN,
     internal \in {<<>>, <<[type |-> "INTERNAL", name |-> "a"]>>,
                   <<[type |-> "INTERNAL", name |-> "a"],
                     [type |-> "INTERNAL", name |-> "b"]>>},
     external \in {<<>>, <<[type |-> "EXTERNAL", name |-> "bfp"]>>}}

\* a selection that takes the external contacts at every level
selectContactsEveryone(level, repo) ==
  (IF repo.phone THEN <<ProfileContact>> ELSE <<>>)
    \o repo.internal \o repo.external

\* triggerSMSAlert, "Get contacts based on level": the contacts array
selectContacts(level, repo) ==
  CASE level = "low" ->
         (IF repo.phone THEN <<ProfileContact>> ELSE <<>>) \o repo.internal
    [] level = "critical" ->
         (IF repo.phone THEN <<ProfileContact>> ELSE <<>>)
           \o repo.internal \o repo.external
    [] OTHER -> <<>>

\* Settings.getByUserId(2), Contact.getInternalContacts(2) and, for
\* critical, Contact.getExternalContacts() have returned: with no contact
\* the invocation returns, otherwise it calls sendGasLeakAlert and awaits it.
\* (The awaits before the call change no state and are one position.)
ContactsResolvedState(e, repos) ==
  /\ trig[e].pc = "prepare"
  /\ \E repo \in repos :
       LET contacts == selectContacts(trig[e].level, repo)
       IN IF contacts # <<>>
          THEN /\ trig' = [trig EXCEPT ![e].pc = "send"]
               /\ sends' = sends \cup
                    {[level |-> trig[e].level, time |-> now, ep |-> e,
                      contacts |-> contacts, repo |-> repo]}
          ELSE /\ trig' = [trig EXCEPT ![e] = NoTrig]
               /\ sends' = sends
  /\ UNCHANGED <<now, gpioVars, devVars, hwVars, detectionState, persistenceTimer, timers,
                 epCount, curEp, fired, shortEnded,
                 cooldownSkips, lastSMSLevel, lastReset, ticks>>

\* the contacts resolve from a repository with at most the profile phone
ContactsResolved(e) ==
  /\ ContactsResolvedState(e, BasicRepositories)
  /\ UNCHANGED now

\* the contacts resolve from a repository with internal and external rows
ContactsResolvedFrom(e) ==
  /\ ContactsResolvedState(e, Repositories)
  /\ UNCHANGED now

\* sendGasLeakAlert returns: "Mark SMS as triggered"; the update of the
\* alert record that follows touches the Alert model only.
SendReturns(e) ==
  /\ trig[e].pc = "send"
  /\ detectionState' = [detectionState EXCEPT !.smsTriggered = TRUE,
                                              !.lastSMSTime = now]
  /\ lastSMSLevel' = trig[e].level
  /\ trig' = [trig EXCEPT ![e] = NoTrig]
  /\ UNCHANGED <<now, gpioVars, devVars, hwVars, persistenceTimer, timers, epCount, curEp,
                 fired, shortEnded, cooldownSkips, sends, lastReset, ticks>>

\* a catch block that marks the alert as sent although the dispatch threw
CollaboratorThrowsMarks(e) ==
  /\ trig[e].pc \in {"prepare", "send"}
  /\ trig' = [trig EXCEPT ![e] = NoTrig]
  /\ detectionState' = [detectionState EXCEPT !.smsTriggered = TRUE,
                                              !.lastSMSTime = now]
  /\ UNCHANGED <<now, gpioVars, devVars, hwVars, persistenceTimer, timers,
                 epCount, curEp, fired, shortEnded,
                 cooldownSkips, sends, lastSMSLevel, lastReset, ticks>>

\* a collaborator awaited by triggerSMSAlert throws: the catch block
CollaboratorThrows(e) ==
  /\ trig[e].pc \in {"prepare", "send"}
  /\ trig' = [trig EXCEPT ![e] = NoTrig]
  /\ UNCHANGED <<now, gpioVars, devVars, hwVars, detectionState, persistenceTimer, timers,
                 epCount, curEp, fired, shortEnded,
                 cooldownSkips, sends, lastSMSLevel, lastReset, ticks>>

\* the clock of the alert specification
TickAlert(maxTicks) ==
  /\ ticks < maxTicks
  /\ \E d \in {ShortStep, SMS_TRIGGER_DELAY, SMS_COOLDOWN} : now' = now + d
  /\ ticks' = ticks + 1
  /\ UNCHANGED <<gpioVars, devVars, hwVars, detectionState, persistenceTimer, timers, trig,
                 epCount, curEp, fired, shortEnded, cooldownSkips, sends,
                 lastSMSLevel, lastReset>>

\* -------------------------------------------------------- HardwareManager
\* ppm readings are explored on the grid 0, 10, ..., 10 * MaxPpmIndex and
\* the fractions of the source are computed exactly: a ratio is compared by
\* cross-multiplication, a multiplier is carried in tenths, the confidence
\* is the fraction num / den
PpmGrid == {10 * k : k \in 0..MaxPpmIndex}
\* the readings of the control-loop specification: one per alert band
ControlPpm == {0, 150, 350}

Max2(a, b) == IF a >= b THEN a ELSE b

Min2(a, b) == IF a <= b THEN a ELSE b

\* this.alertLevels
alertLevels == [normal |-> [min |-> 0, max |-> 99],
                low |-> [min |-> 100, max |-> 299],
                critical |-> [min |-> 300]]

\* determineAlertLevel(ppm)
determineAlertLevel(ppm) ==
  IF ppm >= alertLevels.critical.min THEN "critical"
  ELSE IF ppm >= alertLevels.low.min THEN "low"
  ELSE "normal"

\* detectGasType(mq6Data, mq2Data)
detectGasType(mq6, mq2) ==
  IF 10 * mq6 > 15 * Max2(mq2, 1) /\ mq6 > 50 THEN "LPG/Butane"
  ELSE IF mq2 > 2 * Max2(mq6, 1) /\ mq2 > 30 THEN "Smoke/Fire"
  ELSE IF mq6 > 20 /\ mq2 > 20 THEN "LPG/Propane"
  ELSE IF mq2 > 10 /\ mq6 < 10 THEN "Other Gases"
  ELSE "Clean Air"

\* a confidence whose boost grows with the disagreement of the channels
calculateConfidenceOfDisagreement(mq6, mq2) ==
  LET maxPpm == Max2(mq6, mq2)
      minPpm == Min2(mq6, mq2)
      den == Max2(maxPpm, 1)
      base == IF maxPpm > 100 THEN 40
              ELSE IF maxPpm > 50 THEN 30
              ELSE IF maxPpm > 20 THEN 20
              ELSE IF maxPpm > 5 THEN 10
              ELSE 0
      agree == IF minPpm > 5 /\ maxPpm > 0 THEN 30 * (maxPpm - minPpm) ELSE 0
      high == IF maxPpm > 200 THEN 20 ELSE 0
      num == (base + high) * den + agree
  IN [num |-> Min2(100 * den, Max2(0, num)), den |-> den]

\* calculateConfidence(mq6Data, mq2Data), as the fraction num / den
calculateConfidence(mq6, mq2) ==
  LET maxPpm == Max2(mq6, mq2)
      minPpm == Min2(mq6, mq2)
      den == Max2(maxPpm, 1)
      base == IF maxPpm > 100 THEN 40
              ELSE IF maxPpm > 50 THEN 30
              ELSE IF maxPpm > 20 THEN 20
              ELSE IF maxPpm > 5 THEN 10
              ELSE 0
      agree == IF minPpm > 5 /\ maxPpm > 0 THEN 30 * minPpm ELSE 0
      high == IF maxPpm > 200 THEN 20 ELSE 0
      num == (base + high) * den + agree
  IN [num |-> Min2(100 * den, Max2(0, num)), den |-> den]

\* confidence > k
confidenceAbove(c, k) == c.num > k * c.den

\* riskMultipliers, in tenths
riskMultipliers == [g \in {"LPG/Butane", "LPG/Propane", "Smoke/Fire",
                           "Other Gases", "Clean Air"} |->
                      CASE g = "LPG/Butane" -> 12
                        [] g = "LPG/Propane" -> 11
                        [] g = "Smoke/Fire" -> 15
                        [] g = "Other Gases" -> 8
                        [] g = "Clean Air" -> 1]

\* assessRisk(mq6Data, mq2Data, gasType)
assessRisk(mq6, mq2, gasType) ==
  LET baseRisk == Max2(mq6, mq2) * riskMultipliers[gasType]
  IN IF baseRisk > 3000 THEN "HIGH"
     ELSE IF baseRisk > 1500 THEN "MEDIUM"
     ELSE IF baseRisk > 500 THEN "LOW"
     ELSE "MINIMAL"

\* analyzeSensorAgreement(mq6Data, mq2Data)
analyzeSensorAgreement(mq6, mq2) ==
  LET maxPpm == Max2(mq6, mq2)
      minPpm == Min2(mq6, mq2)
  IN IF maxPpm = 0 THEN "PERFECT"
     ELSE IF 10 * minPpm > 8 * maxPpm THEN "EXCELLENT"
     ELSE IF 10 * minPpm > 6 * maxPpm THEN "GOOD"
     ELSE IF 10 * minPpm > 4 * maxPpm THEN "FAIR"
     ELSE IF 10 * minPpm > 2 * maxPpm THEN "POOR"
     ELSE "DISAGREEMENT"

\* evaluateSensorData(mq6Data, mq2Data): the fields the alert level reads
evaluateSensorData(mq6, mq2) ==
  [maxPpm |-> Max2(mq6, mq2),
   minPpm |-> Min2(mq6, mq2),
   gasType |-> detectGasType(mq6, mq2),
   confidence |-> calculateConfidence(mq6, mq2),
   riskLevel |-> assessRisk(mq6, mq2, detectGasType(mq6, mq2)),
   agreement |-> analyzeSensorAgreement(mq6, mq2)]

\* determineSmartAlertLevel(fusedData)
determineSmartAlertLevel(fusedData) ==
  IF confidenceAbove(fusedData.confidence, 70) /\ fusedData.riskLevel = "HIGH"
  THEN "critical"
  ELSE IF confidenceAbove(fusedData.confidence, 50)
          /\ fusedData.riskLevel = "MEDIUM"
  THEN "low"
  ELSE IF fusedData.maxPpm > 200 /\ fusedData.agreement = "EXCELLENT"
  THEN "critical"
  ELSE IF fusedData.maxPpm > 100 /\ fusedData.agreement = "GOOD"
  THEN "low"
  ELSE determineAlertLevel(fusedData.maxPpm)

\* sensorData.fused before the first evaluation
NoFused == [maxPpm |-> 0, minPpm |-> 0, gasType |-> "none",
            confidence |-> [num |-> 0, den |-> 1], riskLevel |-> "none",
            agreement |-> "none"]

\* constructor(), initialize()
ControlInit ==
  /\ preheated = FALSE
  /\ sensorData = [mq6 |-> 0, mq2 |-> 0, fused |-> NoFused]
  /\ currentAlertLevel = "normal"
  /\ immediates = <<>>
  /\ changes = <<>>
  /\ events = <<>>
  /\ polls = 0

\* the preheat timers of both gas sensors have run
preheatCompleted ==
  /\ ~preheated
  /\ preheated' = TRUE
  /\ UNCHANGED <<now, gpioVars, devVars, alertVars, sensorData, currentAlertLevel,
                 immediates, changes, events, polls, ledVars, buzzerVars>>

\* a change test that takes every evaluation for a level change
alertLevelChangedAlways(newAlertLevel, current) == TRUE

\* readSensorData, "Handle alert level changes"
alertLevelChanged(newAlertLevel, current) == newAlertLevel # current

\* what read() of a channel gives a poll: a concentration, or a failure
Reads == {[ok |-> FALSE, ppm |-> 0]} \cup
         {[ok |-> TRUE, ppm |-> p] : p \in ControlPpm}

\* a successful read() of ppm
Valid(ppm) == [ok |-> TRUE, ppm |-> ppm]

\* readSensorData: the local mq6Data / mq2Data, { raw: 0, ppm: 0 } unless
\* read() succeeded
localData(r) == IF r.ok THEN r.ppm ELSE 0

\* readSensorData: this.sensorData.mq6 / mq2 after the try / catch, the last
\* valid data when read() failed
keptData(r, last) == IF r.ok THEN r.ppm ELSE last

\* readSensorData(), one tick of the reading interval, with read() of the two
\* channels giving r6 and r2; the setImmediate callbacks of the tick before
\* have run by then
readSensorDataState(r6, r2, maxPolls) ==
  /\ polls < maxPolls
  /\ immediates = <<>>
  /\ polls' = polls + 1
  /\ now' = now + readingIntervalMs
  /\ IF ~preheated
     THEN /\ sensorData' = [sensorData EXCEPT !.mq6 = 0, !.mq2 = 0]
          /\ currentAlertLevel' = "normal"
          /\ UNCHANGED <<immediates, changes>>
     ELSE LET fusedData == evaluateSensorData(localData(r6), localData(r2))
              newAlertLevel == determineSmartAlertLevel(fusedData)
              change == [level |-> newAlertLevel,
                         previousLevel |-> currentAlertLevel]
          IN /\ sensorData' = [mq6 |-> keptData(r6, sensorData.mq6),
                               mq2 |-> keptData(r2, sensorData.mq2),
                               fused |-> fusedData]
             /\ IF alertLevelChanged(newAlertLevel, currentAlertLevel)
                THEN /\ currentAlertLevel' = newAlertLevel
                     /\ immediates' = Append(immediates,
                                        [kind |-> "handle"] @@ change)
                     /\ changes' = Append(changes, change)
                ELSE UNCHANGED <<currentAlertLevel, immediates, changes>>

\* readSensorData() with reads that may fail
readSensorDataWith(r6, r2, maxPolls) ==
  /\ readSensorDataState(r6, r2, maxPolls)
  /\ UNCHANGED <<gpioVars, devVars, alertVars, preheated, events, ledVars,
                 buzzerVars>>

\* readSensorData() with both reads succeeding, with mq6 and mq2 ppm
readSensorData(mq6, mq2, maxPolls) ==
  /\ readSensorDataState(Valid(mq6), Valid(mq2), maxPolls)
  /\ UNCHANGED <<gpioVars, devVars, alertVars, preheated, events, ledVars,
                 buzzerVars>>

\* ---------------------------------------------------------- LEDController
\* A write to an LED or buzzer pin is an entry of that pin's FIFO in the
\* GPIO queue; the writes of one pin complete in order, the writes of
\* different pins in any order, and every write is taken to succeed.
Colors == {"red", "green", "yellow"}

\* setColor(color): the three awaited setPin calls, in order
setColorWrites(color) ==
  CASE color = "red" -> <<[pin |-> "yellow", value |-> 0],
                          [pin |-> "green", value |-> 0],
                          [pin |-> "red", value |-> 1]>>
    [] color = "green" -> <<[pin |-> "red", value |-> 0],
                            [pin |-> "yellow", value |-> 0],
                            [pin |-> "green", value |-> 1]>>
    [] color = "yellow" -> <<[pin |-> "red", value |-> 0],
                             [pin |-> "green", value |-> 0],
                             [pin |-> "yellow", value |-> 1]>>

\* constructor(), initialize(): the awaited setColor('green') has returned
LedInit ==
  /\ ledPins = [c \in Colors |-> IF c = "green" THEN 1 ELSE 0]
  /\ currentColor = "green"
  /\ ledCalls = {}
  /\ ledQueues = [c \in Colors |-> <<>>]
  /\ lastColor = "green"
  /\ ledCount = 0

\* setPin(pin, value) of the call id: the queues after gpioQueue.enqueue
setPin(Q, id, w) ==
  [Q EXCEPT ![w.pin] = Append(@, [call |-> id, value |-> w.value])]

\* setColor(color) up to its first await
setColor(color) ==
  /\ ledCount' = ledCount + 1
  /\ lastColor' = color
  /\ ledCalls' = ledCalls \cup
                   {[id |-> ledCount + 1, color |-> color, step |-> 1]}
  /\ ledQueues' = setPin(ledQueues, ledCount + 1, setColorWrites(color)[1])
  /\ UNCHANGED <<ledPins, currentColor>>

\* the GPIO queue completes the oldest write of an LED pin and the setColor
\* call awaiting it goes on: the next setPin, or currentColor = targetColor
ledWriteDone(pin) ==
  /\ ledQueues[pin] # <<>>
  /\ LET op == Head(ledQueues[pin])
         call == CHOOSE c \in ledCalls : c.id = op.call
         rest == [ledQueues EXCEPT ![pin] = Tail(@)]
     IN /\ ledPins' = [ledPins EXCEPT ![pin] = op.value]
        /\ IF call.step < Len(setColorWrites(call.color))
           THEN /\ ledQueues' = setPin(rest, call.id,
                                  setColorWrites(call.color)[call.step + 1])
                /\ ledCalls' = (ledCalls \ {call}) \cup
                                 {[call EXCEPT !.step = @ + 1]}
                /\ UNCHANGED currentColor
           ELSE /\ ledQueues' = rest
                /\ ledCalls' = ledCalls \ {call}
                /\ currentColor' = call.color
  /\ UNCHANGED <<now, gpioVars, devVars, alertVars, ctlVars, lastColor, ledCount,
                 buzzerVars>>

\* ------------------------------------------------------- BuzzerController
\* this.patterns: the steps of the patterns the control loop starts; every
\* step has on > 0 and off > 0
patterns == [low |-> <<[on |-> 130, off |-> 130], [on |-> 160, off |-> 130]>>,
             critical |-> <<[on |-> 10000, off |-> 200],
                            [on |-> 15000, off |-> 200]>>]

\* names start() is called with: the alert patterns and a name that
\* this.patterns does not define
PatternNames == {"low", "critical", "unknown"}

\* constructor(), initialize(): the awaited turnOff() has returned; h is the
\* holdTime of the alert patterns
BuzzerInitWith(h) ==
  /\ buzzerOut = 0
  /\ isActive = FALSE
  /\ currentPattern = "null"
  /\ patternStep = 0
  /\ buzzerQueue = <<>>
  /\ stepTimers = {}
  /\ timerCount = 0
  /\ stopEpoch = 0
  /\ staleStep = FALSE
  /\ isHolding = FALSE
  /\ holdTimer = 0
  /\ holdTime = h
  /\ alertStartTime = 0
  /\ calls = [n |-> 0, op |-> "none", arg |-> "null", threw |-> FALSE,
              active |-> "null", holding |-> FALSE]

\* the built-in patterns: holdTime: 0
BuzzerInit == BuzzerInitWith(0)

\* a write of the buzzer pin and the caller awaiting it
BuzzerWrite(value, kind, pattern, born) ==
  [value |-> value, kind |-> kind, pattern |-> pattern, born |-> born]

\* playPatternStep() with a step to play (the wrap to step 0 is done by the
\* caller): turnOn() is called without await and timeout1 is scheduled
playPatternStep(Q, T, epoch) ==
  [queue |-> Append(Q, BuzzerWrite(1, "turnOn", "null", epoch)),
   timers |-> T \cup {[id |-> timerCount + 1, kind |-> "on",
                       born |-> epoch]}]

\* the call recorded in the history, with the pattern that was active and the
\* hold phase when it was made
Called(op, arg, threw) ==
  [n |-> calls.n + 1, op |-> op, arg |-> arg, threw |-> threw,
   active |-> currentPattern, holding |-> isHolding]

\* stop() up to its await: every pending pattern timer is in activeTimeouts
\* and is cleared, stopHoldTimer() runs, then turnOff() is awaited by `kind`
stopCalled(kind, pattern) ==
  /\ stepTimers' = {}
  /\ holdTimer' = 0
  /\ isHolding' = FALSE
  /\ buzzerQueue' = Append(buzzerQueue, BuzzerWrite(0, kind, pattern, 0))
  /\ UNCHANGED <<buzzerOut, isActive, currentPattern, patternStep,
                 timerCount, stopEpoch, staleStep, holdTime, alertStartTime>>

\* stop()
stop ==
  /\ stopCalled("stop", "null")
  /\ calls' = Called("stop", "null", FALSE)

\* a start() without the test for the pattern that is already playing
startAlwaysRestarts(patternName) ==
  /\ calls' = Called("start", patternName, patternName \notin DOMAIN patterns)
  /\ IF patternName \notin DOMAIN patterns
     THEN UNCHANGED <<buzzerOut, isActive, currentPattern, patternStep,
                      buzzerQueue, stepTimers, timerCount, stopEpoch,
                      staleStep, isHolding, holdTimer, holdTime,
                      alertStartTime>>
     ELSE stopCalled("start", patternName)

\* start(patternName) up to its first await
start(patternName) ==
  /\ calls' = Called("start", patternName, patternName \notin DOMAIN patterns)
  /\ IF patternName \notin DOMAIN patterns
     THEN UNCHANGED <<buzzerOut, isActive, currentPattern, patternStep,
                      buzzerQueue, stepTimers, timerCount, stopEpoch,
                      staleStep, isHolding, holdTimer, holdTime,
                      alertStartTime>>
     ELSE IF currentPattern = patternName /\ ~isHolding
     THEN /\ holdTimer' = 0
          /\ isHolding' = FALSE
          /\ UNCHANGED <<buzzerOut, isActive, currentPattern, patternStep,
                         buzzerQueue, stepTimers, timerCount, stopEpoch,
                         staleStep, holdTime, alertStartTime>>
     ELSE stopCalled("start", patternName)

\* the GPIO queue completes the oldest write of the buzzer pin and the call
\* awaiting it goes on
buzzerWriteDone(maxTimers) ==
  /\ buzzerQueue # <<>>
  /\ LET op == Head(buzzerQueue)
         rest == Tail(buzzerQueue)
     IN /\ buzzerOut' = op.value
        /\ acked' = (acked \/ op.kind = "acknowledge")
        /\ CASE op.kind = "turnOn" ->
                  /\ isActive' = TRUE
                  /\ buzzerQueue' = rest
                  /\ UNCHANGED <<currentPattern, patternStep, stepTimers,
                                 timerCount, stopEpoch, staleStep, isHolding,
                                 alertStartTime>>
             [] op.kind \in {"stop", "acknowledge"} ->
                  /\ isActive' = FALSE
                  /\ currentPattern' = "null"
                  /\ patternStep' = 0
                  /\ isHolding' = FALSE
                  /\ alertStartTime' = 0
                  /\ stopEpoch' = stopEpoch + 1
                  /\ buzzerQueue' = rest
                  /\ UNCHANGED <<stepTimers, timerCount, staleStep>>
             [] op.kind = "start" ->
                  LET played == playPatternStep(rest, stepTimers,
                                                stopEpoch + 1)
                  IN /\ timerCount < maxTimers
                     /\ isActive' = FALSE
                     /\ stopEpoch' = stopEpoch + 1
                     /\ currentPattern' = op.pattern
                     /\ patternStep' = 0
                     /\ isHolding' = FALSE
                     /\ alertStartTime' = now
                     /\ buzzerQueue' = played.queue
                     /\ stepTimers' = played.timers
                     /\ timerCount' = timerCount + 1
                     /\ UNCHANGED staleStep
             [] op.kind = "stepOff" ->
                  /\ timerCount < maxTimers
                  /\ isActive' = FALSE
                  /\ buzzerQueue' = rest
                  /\ stepTimers' = stepTimers \cup
                       {[id |-> timerCount + 1, kind |-> "off",
                         born |-> op.born]}
                  /\ timerCount' = timerCount + 1
                  /\ staleStep' = (staleStep \/ op.born < stopEpoch)
                  /\ UNCHANGED <<currentPattern, patternStep, stopEpoch,
                                 isHolding, alertStartTime>>
  /\ UNCHANGED <<now, gpioVars, alertVars, ctlVars, ledVars, holdTimer,
                 holdTime, calls, clearedAt, sensorVars, gpsVars,
                 connVars, fileVars, hubVars>>

\* a pattern timer fires: timeout1 awaits turnOff(), timeout2 advances
\* patternStep and plays the next step
stepTimerFires(maxTimers) ==
  \E t \in stepTimers :
    /\ IF currentPattern = "null"
       THEN /\ stepTimers' = stepTimers \ {t}
            /\ UNCHANGED <<buzzerQueue, patternStep, timerCount, staleStep>>
       ELSE IF t.kind = "on"
       THEN /\ stepTimers' = stepTimers \ {t}
            /\ buzzerQueue' = Append(buzzerQueue,
                                BuzzerWrite(0, "stepOff", "null", t.born))
            /\ UNCHANGED <<patternStep, timerCount, staleStep>>
       ELSE LET played == playPatternStep(buzzerQueue, stepTimers \ {t},
                                          t.born)
            IN /\ timerCount < maxTimers
               /\ patternStep' = IF patternStep + 1
                                      < Len(patterns[currentPattern])
                                 THEN patternStep + 1 ELSE 0
               /\ buzzerQueue' = played.queue
               /\ stepTimers' = played.timers
               /\ timerCount' = timerCount + 1
               /\ staleStep' = (staleStep \/ t.born < stopEpoch)
    /\ UNCHANGED <<now, gpioVars, devVars, alertVars, ctlVars, ledVars,
                   buzzerOut, isActive, currentPattern, stopEpoch, isHolding,
                   holdTimer, holdTime, alertStartTime, calls>>

\* startHoldTimer()
startHoldTimer(maxCalls) ==
  /\ calls.n < maxCalls
  /\ calls' = Called("startHoldTimer", "null", FALSE)
  /\ IF currentPattern = "null" \/ (holdTime > 0 /\ isHolding)
     THEN UNCHANGED <<buzzerOut, isActive, currentPattern, patternStep,
                      buzzerQueue, stepTimers, timerCount, stopEpoch,
                      staleStep, isHolding, holdTimer, holdTime,
                      alertStartTime>>
     ELSE IF holdTime <= 0
     THEN stopCalled("stop", "null")
     ELSE /\ isHolding' = TRUE
          /\ holdTimer' = now + holdTime
          /\ UNCHANGED <<buzzerOut, isActive, currentPattern, patternStep,
                         buzzerQueue, stepTimers, timerCount, stopEpoch,
                         staleStep, holdTime, alertStartTime>>
  /\ UNCHANGED <<now, gpioVars, devVars, alertVars, ctlVars, ledVars>>

\* the hold timer fires: its callback calls stop()
holdTimerFires ==
  /\ holdTimer # 0
  /\ now >= holdTimer
  /\ stopCalled("stop", "null")
  /\ UNCHANGED <<now, gpioVars, devVars, alertVars, ctlVars, ledVars, calls>>

\* start(patternName) called on the BuzzerController alone
startCall(patternName, maxCalls) ==
  /\ calls.n < maxCalls
  /\ start(patternName)
  /\ UNCHANGED <<now, gpioVars, devVars, alertVars, ctlVars, ledVars>>

\* stop() called on the BuzzerController alone
stopCall(maxCalls) ==
  /\ calls.n < maxCalls
  /\ stop
  /\ UNCHANGED <<now, gpioVars, devVars, alertVars, ctlVars, ledVars>>

\* the clock of the buzzer specification moves by one hold time
TickBuzzer(maxTicks) ==
  /\ now < StartNow + maxTicks * HoldMs
  /\ now' = now + HoldMs
  /\ UNCHANGED <<gpioVars, devVars, alertVars, hwVars>>

\* ------------------------------------------- HardwareManager, alert handling
\* LED colour of an alert level
levelColor == [normal |-> "green", low |-> "yellow", critical |-> "red"]

\* the oldest setImmediate callback is handleAlertLevelChange(level,
\* previousLevel, ppm): none of the calls it makes is awaited
handleAlertLevelChange ==
  /\ immediates # <<>>
  /\ Head(immediates).kind = "handle"
  /\ LET h == Head(immediates)
         emit == [kind |-> "emit", level |-> h.level,
                  previousLevel |-> h.previousLevel]
         critical == [kind |-> "criticalAlert", level |-> h.level,
                      previousLevel |-> h.previousLevel]
     IN /\ updateAlertLevelState(h.level, DeepEpisodes)
        /\ setColor(levelColor[h.level])
        /\ IF h.level = "normal" THEN stop ELSE start(h.level)
        /\ clearedAt' = IF h.level = "normal" /\ currentPattern # "null"
                        THEN now ELSE 0
        /\ acked' = FALSE
        /\ immediates' = Tail(immediates) \o
                           (IF h.level = "critical" THEN <<critical>>
                            ELSE <<>>) \o <<emit>>
  /\ UNCHANGED <<now, gpioVars, preheated, sensorData, currentAlertLevel,
                 changes, events, polls, sensorVars, gpsVars,
                 connVars, fileVars, hubVars>>

\* acknowledgeAlert() up to its await of buzzer.stop(): the operator sends
\* the command once between two buzzer calls of the control loop
acknowledgeAlert ==
  /\ calls.op # "acknowledgeAlert"
  /\ stopCalled("acknowledge", "null")
  /\ calls' = Called("acknowledgeAlert", "null", FALSE)
  /\ UNCHANGED <<now, gpioVars, devVars, alertVars, ctlVars, ledVars>>

\* the oldest setImmediate callback emits criticalAlert or alertLevelChange
emitEvent ==
  /\ immediates # <<>>
  /\ Head(immediates).kind # "handle"
  /\ immediates' = Tail(immediates)
  /\ events' = IF Head(immediates).kind = "emit"
               THEN Append(events, [level |-> Head(immediates).level,
                                    previousLevel |->
                                      Head(immediates).previousLevel])
               ELSE events
  /\ UNCHANGED <<now, gpioVars, devVars, alertVars, preheated, sensorData,
                 currentAlertLevel, changes, polls, ledVars, buzzerVars>>

\* ------------------------------------------------------------ GasSensor
\* this.preheatTime
preheatTime == 60000

\* autoCalibrate: numReadings
numReadings == 10

\* ADC voltages read, in tenths of a volt: the two edge cases and mid-scale
Voltages == {0, 25, 50}

\* voltages read during an auto-calibration
CleanAirVoltages == {0, 50}

\* values a caller passes to calibrate()
CalibrationInputs == {0, 4000}

\* Math.max(100, Math.min(1000000, r))
clampResistance(r) == Max2(100, Min2(1000000, r))

\* calculateResistance(voltage): voltage in tenths of a volt, vc = 5.0
calculateResistance(voltage) ==
  IF voltage = 0 THEN 1000000
  ELSE IF voltage >= 49 THEN 100
  ELSE clampResistance(((50 - voltage) * calibration.ro) \div voltage)

\* the spec's Ready state: initialized, and preheatTime has elapsed since the
\* most recent initialize()
SensorReady ==
  isInitialized /\ preheatStartTime # 0 /\ now >= preheatStartTime + preheatTime

\* the call recorded in the history: whether it found the sensor Ready, and
\* whether it changed the calibration
SensorCalled(op, threw, after) ==
  [op |-> op, threw |-> threw, ready |-> SensorReady,
   changed |-> after # calibration]

\* no reading returned
NoReading == [ok |-> FALSE, resistance |-> 0, elapsed |-> 0]

\* constructor()
SensorInit ==
  /\ isInitialized = FALSE
  /\ isPreheated = FALSE
  /\ preheatStartTime = 0
  /\ preheatTimers = {}
  /\ calibration = [ro |-> 5000, lastCalibrated |-> 0]
  /\ reading = NoReading
  /\ autoCal = [pc |-> "idle", i |-> 0, sum |-> 0]
  /\ inits = 0
  /\ sensorCall = [op |-> "none", threw |-> FALSE, ready |-> FALSE,
                   changed |-> FALSE]

\* initialize(): startPreheating() schedules a timer that nothing cancels
initialize(maxInits) ==
  /\ inits < maxInits
  /\ inits' = inits + 1
  /\ preheatStartTime' = now
  /\ isPreheated' = FALSE
  /\ preheatTimers' = preheatTimers \cup {now + preheatTime}
  /\ isInitialized' = TRUE
  /\ sensorCall' = SensorCalled("initialize", FALSE, calibration)
  /\ UNCHANGED <<now, gpioVars, alertVars, hwVars, opVars, gpsVars, connVars,
                 fileVars, hubVars, calibration,
                 reading, autoCal>>

\* cleanup()
cleanup ==
  /\ isInitialized' = FALSE
  /\ isPreheated' = FALSE
  /\ sensorCall' = SensorCalled("cleanup", FALSE, calibration)
  /\ UNCHANGED <<now, gpioVars, alertVars, hwVars, opVars, gpsVars, connVars,
                 fileVars, hubVars, preheatStartTime,
                 preheatTimers, calibration, reading, autoCal, inits>>

\* the callback of a preheat timer
preheatTimerFires ==
  \E d \in preheatTimers :
    /\ now >= d
    /\ isPreheated' = TRUE
    /\ preheatTimers' = preheatTimers \ {d}
    /\ UNCHANGED <<now, gpioVars, alertVars, hwVars, opVars, gpsVars, connVars,
                 fileVars, hubVars, isInitialized,
                   preheatStartTime, calibration, reading, autoCal, inits,
                   sensorCall>>

\* read() with the ADC returning `voltage`
read(voltage) ==
  /\ reading' = IF ~isInitialized \/ ~isPreheated THEN NoReading
                ELSE [ok |-> TRUE,
                      resistance |-> calculateResistance(voltage),
                      elapsed |-> now - preheatStartTime]
  /\ sensorCall' = SensorCalled("read", ~isInitialized \/ ~isPreheated,
                               calibration)
  /\ UNCHANGED <<now, gpioVars, alertVars, hwVars, opVars, gpsVars, connVars,
                 fileVars, hubVars, isInitialized,
                 isPreheated, preheatStartTime, preheatTimers, calibration,
                 autoCal, inits>>

\* calibrate(cleanAirResistance): the calibration it leaves
calibrateState(cleanAirResistance) ==
  IF ~isInitialized \/ ~isPreheated
  THEN calibration
  ELSE [ro |-> cleanAirResistance, lastCalibrated |-> now]

\* calibrate(cleanAirResistance)
calibrate(cleanAirResistance) ==
  /\ calibration' = calibrateState(cleanAirResistance)
  /\ sensorCall' = SensorCalled("calibrate", ~isInitialized \/ ~isPreheated,
                               calibrateState(cleanAirResistance))
  /\ UNCHANGED <<now, gpioVars, alertVars, hwVars, opVars, gpsVars, connVars,
                 fileVars, hubVars, isInitialized,
                 isPreheated, preheatStartTime, preheatTimers, reading,
                 autoCal, inits>>

\* autoCalibrate() up to its first await
autoCalibrate ==
  /\ autoCal.pc = "idle"
  /\ autoCal' = IF ~isInitialized \/ ~isPreheated THEN autoCal
                ELSE [pc |-> "reading", i |-> 0, sum |-> 0]
  /\ sensorCall' = SensorCalled("autoCalibrate",
                                ~isInitialized \/ ~isPreheated, calibration)
  /\ UNCHANGED <<now, gpioVars, alertVars, hwVars, opVars, gpsVars, connVars,
                 fileVars, hubVars, isInitialized,
                 isPreheated, preheatStartTime, preheatTimers, calibration,
                 reading, inits>>

\* autoCalibrate(): one read() of the loop and the wait after it; a read()
\* that throws rejects the auto-calibration
autoCalibrateRead(voltage) ==
  /\ autoCal.pc = "reading"
  /\ autoCal.i < numReadings
  /\ autoCal' = IF ~isInitialized \/ ~isPreheated
                THEN [pc |-> "idle", i |-> 0, sum |-> 0]
                ELSE [pc |-> "reading", i |-> autoCal.i + 1,
                      sum |-> autoCal.sum + calculateResistance(voltage)]
  /\ sensorCall' = SensorCalled("autoCalibrateRead",
                                ~isInitialized \/ ~isPreheated, calibration)
  /\ UNCHANGED <<now, gpioVars, alertVars, hwVars, opVars, gpsVars, connVars,
                 fileVars, hubVars, isInitialized,
                 isPreheated, preheatStartTime, preheatTimers, calibration,
                 reading, inits>>

\* autoCalibrate(): the loop is over, calibrate(avgResistance)
autoCalibrateFinish ==
  /\ autoCal.pc = "reading"
  /\ autoCal.i = numReadings
  /\ calibration' = calibrateState(autoCal.sum \div numReadings)
  /\ autoCal' = [pc |-> "idle", i |-> 0, sum |-> 0]
  /\ sensorCall' = SensorCalled("autoCalibrateFinish",
                                ~isInitialized \/ ~isPreheated,
                                calibrateState(autoCal.sum \div numReadings))
  /\ UNCHANGED <<now, gpioVars, alertVars, hwVars, opVars, gpsVars, connVars,
                 fileVars, hubVars, isInitialized,
                 isPreheated, preheatStartTime, preheatTimers, reading,
                 inits>>

\* half a preheat period passes; a timer that is due fires first
TickSensor(maxTicks) ==
  /\ now < StartNow + maxTicks * (preheatTime \div 2)
  /\ \A d \in preheatTimers : d > now
  /\ now' = now + preheatTime \div 2
  /\ UNCHANGED <<gpioVars, alertVars, hwVars, devVars>>

\* ------------------------------------------------------------- GPSAsync
\* setupErrorHandlers: the stale check runs every 10000 ms
staleCheckPeriod == 10000

\* setupErrorHandlers: no NMEA for more than 30000 ms is stale
staleAfter == 30000

\* a coordinate is null or a number of degrees: the empty tuple or a tuple
\* of one number
null == <<>>

\* a coordinate of x degrees
Degrees(x) == <<x>>

\* a coordinate in a condition: null and 0 are falsy
truthy(coord) == coord # null /\ coord # Degrees(0)

\* lastKnownLocation: null
NoLocation ==
  [latitude |-> null, longitude |-> null, accuracy |-> 0, satellites |-> 0,
   hdop |-> 0, timestamp |-> 0]

\* a location loadPersistedLocation() finds on disk
StoredLocation ==
  [latitude |-> Degrees(14), longitude |-> Degrees(121), accuracy |-> 5,
   satellites |-> 8, hdop |-> 10, timestamp |-> 1]

\* a coordinate pair convertToDecimalDegrees() does not convert
NoPosition == [latitude |-> null, longitude |-> null]

\* positions of GGA sentences after convertToDecimalDegrees: null or
\* decimal degrees
Positions == {NoPosition,
              [latitude |-> Degrees(14), longitude |-> Degrees(121)],
              [latitude |-> Degrees(0), longitude |-> Degrees(120)]}

\* hdop fields in tenths, 0 for an empty field (parseFloat(...) || null)
Hdops == {0, 10, 60}

\* a line of the serial parser; `complete` says it has the number of fields
\* the parser of its type asks for
Sentence(type, complete, pos, quality, satellites, hdop, fixType) ==
  [type |-> type, complete |-> complete, pos |-> pos, quality |-> quality,
   satellites |-> satellites, hdop |-> hdop, fixType |-> fixType]

\* lines the serial parser delivers
Sentences ==
  {Sentence("GGA", TRUE, p, q, n, h, 0) :
     p \in Positions, q \in {0, 1}, n \in {3, 4}, h \in Hdops}
  \cup {Sentence("GSA", TRUE, NoPosition, 0, 0, h, f) :
          h \in {0, 10}, f \in {1, 3}}
  \cup {Sentence("GSV", TRUE, NoPosition, 0, n, 0, 0) : n \in {0, 9}}
  \cup {Sentence(t, c, NoPosition, 0, 0, 0, 0) :
          t \in {"GGA", "RMC", "GSA", "GSV", "other"}, c \in BOOLEAN}

\* lines delivered while persistence is explored: good fixes away from and
\* on the equator, and a fix of three satellites
PersistSentences ==
  {Sentence("GGA", TRUE, p, 1, n, 10, 0) :
     p \in Positions \ {NoPosition}, n \in {3, 4}}

\* lines delivered while the notification position is explored: positions
\* with and without fix at two places away from 0 degrees, and fix reports
NotifySentences ==
  {Sentence("GGA", TRUE, [latitude |-> Degrees(x), longitude |-> Degrees(121)],
            q, 4, 10, 0) : x \in {14, 15}, q \in {0, 1}}
  \cup {Sentence("GSA", TRUE, NoPosition, 0, 0, 0, f) : f \in {1, 3}}

\* lines delivered while the stale check is explored: a good fix, a fix
\* report, a sentence cut short and a line of no known type
StaleSentences ==
  {Sentence("GGA", TRUE,
            [latitude |-> Degrees(14), longitude |-> Degrees(121)],
            1, 4, 10, 0),
   Sentence("GSA", TRUE, NoPosition, 0, 0, 0, 3),
   Sentence("GGA", FALSE, NoPosition, 0, 0, 0, 0),
   Sentence("other", TRUE, NoPosition, 0, 0, 0, 0)}

\* calculateAccuracy(hdop, satellites): Math.round(hdop * 3 * factor), hdop
\* in tenths and the factor in tenths
calculateAccuracy(hdop, satellites) ==
  LET factor == IF satellites >= 8 THEN 8
                ELSE IF satellites >= 6 THEN 10
                ELSE IF satellites >= 4 THEN 15 ELSE 20
  IN (hdop * 3 * factor + 50) \div 100

\* a variant of isGoodFix() with the satellite floor of hasFix
isGoodFixOfThree(data) ==
  /\ data.fix
  /\ data.satellites >= 3
  /\ data.fixQuality >= 1
  /\ data.hdop # 0 /\ data.hdop < 50
  /\ data.accuracy # 0 /\ data.accuracy < 50

\* isGoodFix() on currentData = data
isGoodFix(data) ==
  /\ data.fix
  /\ data.satellites >= 4
  /\ data.fixQuality >= 1
  /\ data.hdop # 0 /\ data.hdop < 50
  /\ data.accuracy # 0 /\ data.accuracy < 50

\* parseGGA: the sentence is decoded
decodesGGA(s) ==
  s.complete /\ s.pos.latitude # null /\ s.pos.longitude # null

\* parseGGA: currentData after a decoded sentence
dataOfGGA(s) ==
  [latitude |-> s.pos.latitude, longitude |-> s.pos.longitude,
   hdop |-> s.hdop, satellites |-> s.satellites, fixQuality |-> s.quality,
   fix |-> (s.quality > 0 /\ s.satellites >= 3),
   accuracy |-> IF s.hdop # 0 THEN calculateAccuracy(s.hdop, s.satellites)
                ELSE currentData.accuracy]

\* parseGGA: hasFix && this.isGoodFix()
promotes(s) ==
  /\ decodesGGA(s)
  /\ s.quality > 0 /\ s.satellites >= 3
  /\ isGoodFix(dataOfGGA(s))

\* the sentence is accepted by the parser of its type
decoded(s) ==
  CASE s.type = "GGA" -> decodesGGA(s)
    [] s.type = "other" -> FALSE
    [] OTHER -> s.complete

\* parseGGA / parseRMC / parseGSA / parseGSV: currentData after sentence s
parsed(s) ==
  CASE s.type = "GGA" /\ decodesGGA(s) -> dataOfGGA(s)
    [] s.type = "GSA" /\ s.complete ->
         [currentData EXCEPT !.fix = (s.fixType >= 2),
                             !.hdop = IF s.hdop # 0 THEN s.hdop ELSE @]
    [] s.type = "GSV" /\ s.complete ->
         [currentData EXCEPT !.satellites = Max2(@, s.satellites)]
    [] OTHER -> currentData

\* updateLastKnownLocation(): the location built from currentData = data
locationOf(data) ==
  [latitude |-> data.latitude, longitude |-> data.longitude,
   accuracy |-> data.accuracy, satellites |-> data.satellites,
   hdop |-> data.hdop, timestamp |-> now]

\* getCurrentLocation(): the source of the position it returns
getCurrentLocation ==
  IF currentData.fix /\ truthy(currentData.latitude)
     /\ truthy(currentData.longitude)
  THEN "live"
  ELSE IF lastKnownLocation # NoLocation THEN "cached" ELSE "null"

\* this.maxConnectionAttempts
maxConnectionAttempts == 10

\* this.reconnectDelay
reconnectDelay == 5000

\* scheduleReconnect() without the limit of attempts
reconnectRefusedUnlimited(timer, tries) ==
  isShuttingDown \/ timer # 0

\* scheduleReconnect() is refused
reconnectRefused(timer, tries) ==
  isShuttingDown \/ timer # 0 \/ tries >= maxConnectionAttempts

\* scheduleReconnect() with this.reconnectTimer = timer and
\* this.connectionAttempts = tries: the reconnect timer it leaves
scheduleReconnect(timer, tries) ==
  IF reconnectRefused(timer, tries) THEN timer ELSE now + reconnectDelay

\* history of scheduleReconnect(): the delays of the timers scheduled since
\* the last successful connection
delaysAfter(timer, tries) ==
  IF reconnectRefused(timer, tries) THEN reconnectDelays
  ELSE Append(reconnectDelays, reconnectDelay)

\* constructor(), initialize(): startAsyncConnection() has queued the first
\* connection attempt
ConnInit ==
  /\ connectionAttempts = 0
  /\ reconnectTimer = 0
  /\ queuedConnects = 1
  /\ connecting = 0
  /\ port = "null"
  /\ openPorts = 0
  /\ closeEvents = 0
  /\ isShuttingDown = FALSE
  /\ shutdownPc = "idle"
  /\ reconnectDelays = <<>>
  /\ openedLate = FALSE

\* Date.prototype.toJSON: the ISO string of a time in milliseconds
toISOString(ms) == <<"ISO", ms>>

\* new Date(string): the time of an ISO string
dateOf(iso) == iso[2]

\* JSON.stringify(this.lastKnownLocation): the JSON object written, its
\* numbers as they are and the timestamp as an ISO string
stringify(location) == [location EXCEPT !.timestamp = toISOString(@)]

\* loadPersistedLocation(): lastKnownLocation after reading the file, null
\* when there is none or parsed.latitude && parsed.longitude is falsy
loaded(file) ==
  IF file # <<>> /\ truthy(file[1].latitude) /\ truthy(file[1].longitude)
  THEN [file[1] EXCEPT !.timestamp = dateOf(@)]
  ELSE NoLocation

\* getLocationAge(): the age of lastKnownLocation in seconds
getLocationAge == (now - lastKnownLocation.timestamp) \div 1000

\* HardwareManager.gpsData of the constructor: no coordinates
NoGpsData ==
  [latitude |-> null, longitude |-> null, source |-> "none", age |-> FALSE,
   lastKnownLocation |-> NoLocation, locationAge |-> FALSE]

\* the payload of the 'data' event, getCurrentLocation(), spread into
\* HardwareManager.gpsData: the fields of currentData with source 'live',
\* the fields of lastKnownLocation with source 'cached' and age, or nothing
gpsDataOf(source) ==
  CASE source = "live" ->
         [NoGpsData EXCEPT !.latitude = currentData.latitude,
                           !.longitude = currentData.longitude,
                           !.source = "live"]
    [] source = "cached" ->
         [NoGpsData EXCEPT !.latitude = lastKnownLocation.latitude,
                           !.longitude = lastKnownLocation.longitude,
                           !.source = "cached",
                           !.age = TRUE]
    [] OTHER -> NoGpsData

\* triggerSMSAlert(): the location of the payload for sensorData.gpsData =
\* data and a manual address that is or is not configured
alertLocation(data, address) ==
  IF truthy(data.latitude) /\ truthy(data.longitude)
  THEN [text |-> "GPS", aged |-> FALSE]
  ELSE IF /\ truthy(data.lastKnownLocation.latitude)
          /\ truthy(data.lastKnownLocation.longitude)
       THEN [text |-> "GPS (last known)", aged |-> data.locationAge]
       ELSE IF address THEN [text |-> "address", aged |-> FALSE]
            ELSE [text |-> "Unknown location", aged |-> FALSE]

\* constructor(), initialize(): the persistence file holds `stored`, or
\* there is none
GpsInitWith(stored) ==
  /\ persistedFile = IF stored = NoLocation THEN <<>>
                     ELSE <<stringify(stored)>>
  /\ restored = [file |-> persistedFile, location |-> loaded(persistedFile)]
  /\ currentData = [latitude |-> null, longitude |-> null, hdop |-> 0,
                    satellites |-> 0, fixQuality |-> 0, fix |-> FALSE,
                    accuracy |-> 0]
  /\ lastKnownLocation = loaded(persistedFile)
  /\ isConnected = FALSE
  /\ lastNMEATime = 0
  /\ lastDecodedTime = 0
  /\ staleCheckAt = 0
  /\ saves = 0
  /\ gpsSentence = [type |-> "none", decoded |-> FALSE, satellites |-> 0,
                    promoted |-> FALSE]
  /\ ConnInit
  /\ gpsData = NoGpsData
  /\ dataEvents = 0

\* constructor(): no persistence file
GpsInit == GpsInitWith(NoLocation)

\* the setImmediate callback of startAsyncConnection(): connectToGPS() up to
\* its await of the device probe and of port.open()
connectToGPS ==
  /\ queuedConnects > 0
  /\ queuedConnects' = queuedConnects - 1
  /\ connecting' = connecting + 1
  /\ connectionAttempts' = connectionAttempts + 1
  /\ UNCHANGED <<now, gpioVars, alertVars, hwVars, opVars, sensorVars,
                 fileVars, hubVars,
                 gpsVars, reconnectTimer, port, openPorts, closeEvents,
                 isShuttingDown, shutdownPc, reconnectDelays, openedLate>>

\* connectToGPS(): a device was found and its port is open;
\* setupNMEAParser(), setupErrorHandlers()
portOpened ==
  /\ connecting > 0
  /\ connecting' = connecting - 1
  /\ isConnected' = TRUE
  /\ connectionAttempts' = 0
  /\ port' = "open"
  /\ openPorts' = openPorts + 1
  /\ openedLate' = (openedLate \/ isShuttingDown)
  /\ reconnectDelays' = <<>>
  /\ staleCheckAt' = IF staleCheckAt = 0 THEN now + staleCheckPeriod
                     ELSE staleCheckAt
  /\ UNCHANGED <<now, gpioVars, alertVars, hwVars, opVars, sensorVars,
                 fileVars, hubVars,
                 currentData, lastKnownLocation, lastNMEATime,
                 lastDecodedTime, saves, gpsSentence, reconnectTimer,
                 queuedConnects, closeEvents, isShuttingDown, shutdownPc>>

\* connectToGPS(): no device could be opened; startAsyncConnection() catches
\* the error and calls scheduleReconnect()
connectFailed ==
  /\ connecting > 0
  /\ connecting' = connecting - 1
  /\ reconnectTimer' = scheduleReconnect(reconnectTimer, connectionAttempts)
  /\ reconnectDelays' = delaysAfter(reconnectTimer, connectionAttempts)
  /\ UNCHANGED <<now, gpioVars, alertVars, hwVars, opVars, sensorVars,
                 fileVars, hubVars,
                 gpsVars, connectionAttempts, queuedConnects, port,
                 openPorts, closeEvents, isShuttingDown, shutdownPc,
                 openedLate>>

\* the reconnect timer fires: startAsyncConnection()
reconnectTimerFires ==
  /\ reconnectTimer # 0
  /\ now >= reconnectTimer
  /\ reconnectTimer' = 0
  /\ queuedConnects' = queuedConnects + 1
  /\ UNCHANGED <<now, gpioVars, alertVars, hwVars, opVars, sensorVars,
                 fileVars, hubVars,
                 gpsVars, connectionAttempts, connecting, port, openPorts,
                 closeEvents, isShuttingDown, shutdownPc, reconnectDelays,
                 openedLate>>

\* handleDisconnect(): what it leaves, whoever calls it; closing an open
\* port makes that port emit 'close' later
handleDisconnectState ==
  /\ isConnected' = FALSE
  /\ currentData' = [currentData EXCEPT !.fix = FALSE]
  /\ port' = "null"
  /\ openPorts' = IF port = "open" THEN openPorts - 1 ELSE openPorts
  /\ reconnectTimer' = scheduleReconnect(reconnectTimer, connectionAttempts)
  /\ reconnectDelays' = delaysAfter(reconnectTimer, connectionAttempts)
  /\ UNCHANGED <<now, gpioVars, alertVars, hwVars, opVars, sensorVars,
                 fileVars, hubVars,
                 lastKnownLocation, lastNMEATime, lastDecodedTime,
                 staleCheckAt, saves, gpsSentence, connectionAttempts,
                 queuedConnects, connecting, isShuttingDown, openedLate>>

\* handleDisconnect(): the open port reported an error
handleDisconnect ==
  /\ port = "open"
  /\ handleDisconnectState
  /\ closeEvents' = closeEvents + 1
  /\ UNCHANGED shutdownPc

\* the 'close' event of a port that handleDisconnect() closed: its listener
\* calls handleDisconnect() again
portClosed ==
  /\ closeEvents > 0
  /\ handleDisconnectState
  /\ closeEvents' = IF port = "open" THEN closeEvents ELSE closeEvents - 1
  /\ UNCHANGED shutdownPc

\* shutdown() after its await of savePersistedLocation(): the intervals and
\* the reconnect timer are cleared and an open port is closed
shutdownClears ==
  /\ staleCheckAt' = 0
  /\ reconnectTimer' = 0
  /\ IF port = "open"
     THEN /\ port' = "closed"
          /\ openPorts' = openPorts - 1
          /\ closeEvents' = closeEvents + 1
          /\ shutdownPc' = "closing"
     ELSE /\ shutdownPc' = "done"
          /\ UNCHANGED <<port, openPorts, closeEvents>>

\* shutdown() is called: with a last known location it first awaits
\* savePersistedLocation()
shutdown ==
  /\ shutdownPc = "idle"
  /\ isShuttingDown' = TRUE
  /\ IF lastKnownLocation # NoLocation
     THEN /\ shutdownPc' = "saving"
          /\ UNCHANGED <<staleCheckAt, reconnectTimer, port, openPorts,
                         closeEvents>>
     ELSE shutdownClears
  /\ UNCHANGED <<now, gpioVars, alertVars, hwVars, opVars, sensorVars,
                 fileVars, hubVars,
                 currentData, lastKnownLocation, isConnected, lastNMEATime,
                 lastDecodedTime, saves, gpsSentence, connectionAttempts,
                 queuedConnects, connecting, reconnectDelays, openedLate>>

\* shutdown(): savePersistedLocation() has returned
shutdownSaved ==
  /\ shutdownPc = "saving"
  /\ shutdownClears
  /\ persistedFile' = <<stringify(lastKnownLocation)>>
  /\ UNCHANGED <<now, gpioVars, alertVars, hwVars, opVars, sensorVars,
                 restored, hubVars,
                 currentData, lastKnownLocation, isConnected, lastNMEATime,
                 lastDecodedTime, saves, gpsSentence, connectionAttempts,
                 queuedConnects, connecting, isShuttingDown, reconnectDelays,
                 openedLate>>

\* shutdown(): port.close() has called back
shutdownClosed ==
  /\ shutdownPc = "closing"
  /\ shutdownPc' = "done"
  /\ UNCHANGED <<now, gpioVars, alertVars, hwVars, opVars, sensorVars,
                 fileVars, hubVars,
                 gpsVars, connectionAttempts, reconnectTimer, queuedConnects,
                 connecting, port, openPorts, closeEvents, isShuttingDown,
                 reconnectDelays, openedLate>>

\* one reconnect delay passes; a timer that is due and a port that is
\* closing come first
TickConnect(maxTicks) ==
  /\ now < StartNow + maxTicks * reconnectDelay
  /\ reconnectTimer = 0 \/ reconnectTimer > now
  /\ closeEvents = 0
  /\ now' = now + reconnectDelay
  /\ UNCHANGED <<gpioVars, alertVars, hwVars, devVars>>

\* processNMEASentence(sentence) for a line of the serial parser
processNMEASentence(s) ==
  /\ isConnected
  /\ lastNMEATime' = now
  /\ lastDecodedTime' = IF decoded(s) THEN now ELSE lastDecodedTime
  /\ currentData' = parsed(s)
  /\ IF s.type = "GGA" /\ promotes(s)
     THEN /\ lastKnownLocation' = locationOf(dataOfGGA(s))
          /\ saves' = Min2(saves + 1, 1)
     ELSE UNCHANGED <<lastKnownLocation, saves>>
  /\ dataEvents' = IF s.type = "GGA" /\ decodesGGA(s) THEN 1 ELSE dataEvents
  /\ gpsSentence' = [type |-> s.type, decoded |-> decoded(s),
                     satellites |-> s.satellites,
                     promoted |-> (s.type = "GGA" /\ promotes(s))]
  /\ UNCHANGED <<now, gpioVars, alertVars, hwVars, opVars, sensorVars,
                 connVars, fileVars, gpsData,
                 isConnected, staleCheckAt>>

\* the setImmediate callback of parseGGA emits 'data' with
\* getCurrentLocation(), and the listener of setupEventListeners() replaces
\* HardwareManager.gpsData
gpsDataEmitted ==
  /\ dataEvents > 0
  /\ dataEvents' = dataEvents - 1
  /\ gpsData' = gpsDataOf(getCurrentLocation)
  /\ UNCHANGED <<now, gpioVars, alertVars, hwVars, opVars, sensorVars, gpsVars,
                 connVars, fileVars>>

\* the setImmediate callback of updateLastKnownLocation():
\* savePersistedLocation()
savePersistedLocation ==
  /\ saves > 0
  /\ saves' = saves - 1
  /\ persistedFile' = IF lastKnownLocation = NoLocation THEN persistedFile
                      ELSE <<stringify(lastKnownLocation)>>
  /\ UNCHANGED <<now, gpioVars, alertVars, hwVars, opVars, sensorVars,
                 connVars, restored, hubVars,
                 currentData, lastKnownLocation, isConnected, lastNMEATime,
                 lastDecodedTime, staleCheckAt, gpsSentence>>

\* the program is started again after a shutdown: constructor() and
\* initialize() with loadPersistedLocation() and startAsyncConnection();
\* what the process that ended had queued or open is gone
loadPersistedLocation ==
  /\ shutdownPc = "done"
  /\ lastKnownLocation' = loaded(persistedFile)
  /\ restored' = [file |-> persistedFile, location |-> loaded(persistedFile)]
  /\ currentData' = [latitude |-> null, longitude |-> null, hdop |-> 0,
                     satellites |-> 0, fixQuality |-> 0, fix |-> FALSE,
                     accuracy |-> 0]
  /\ isConnected' = FALSE
  /\ lastNMEATime' = 0
  /\ lastDecodedTime' = 0
  /\ staleCheckAt' = 0
  /\ saves' = 0
  /\ gpsSentence' = [type |-> "none", decoded |-> FALSE, satellites |-> 0,
                     promoted |-> FALSE]
  /\ connectionAttempts' = 0
  /\ reconnectTimer' = 0
  /\ queuedConnects' = 1
  /\ connecting' = 0
  /\ port' = "null"
  /\ openPorts' = 0
  /\ closeEvents' = 0
  /\ isShuttingDown' = FALSE
  /\ shutdownPc' = "idle"
  /\ reconnectDelays' = <<>>
  /\ openedLate' = FALSE
  /\ gpsData' = NoGpsData
  /\ dataEvents' = 0
  /\ UNCHANGED <<now, gpioVars, alertVars, hwVars, opVars, sensorVars,
                 persistedFile>>

\* a stale check that leaves the fix as it is
staleCheckIdle ==
  /\ staleCheckAt # 0
  /\ now >= staleCheckAt
  /\ staleCheckAt' = staleCheckAt + staleCheckPeriod
  /\ UNCHANGED <<now, gpioVars, alertVars, hwVars, opVars, sensorVars,
                 connVars, fileVars, hubVars,
                 currentData, lastKnownLocation, isConnected, lastNMEATime,
                 lastDecodedTime, saves, gpsSentence>>

\* the staleCheckInterval callback
staleCheck ==
  /\ staleCheckAt # 0
  /\ now >= staleCheckAt
  /\ staleCheckAt' = staleCheckAt + staleCheckPeriod
  /\ currentData' = IF lastNMEATime # 0 /\ now - lastNMEATime > staleAfter
                    THEN [currentData EXCEPT !.fix = FALSE]
                    ELSE currentData
  /\ UNCHANGED <<now, gpioVars, alertVars, hwVars, opVars, sensorVars,
                 connVars, fileVars, hubVars,
                 lastKnownLocation, isConnected, lastNMEATime,
                 lastDecodedTime, saves, gpsSentence>>

\* one stale-check period passes; a stale check that is due runs first
TickGps(maxTicks) ==
  /\ now < StartNow + maxTicks * staleCheckPeriod
  /\ staleCheckAt = 0 \/ staleCheckAt > now
  /\ now' = now + staleCheckPeriod
  /\ UNCHANGED <<gpioVars, alertVars, hwVars, devVars>>

Init ==
  /\ now = StartNow
  /\ GPIOInit
  /\ AlertInit
  /\ ControlInit
  /\ LedInit
  /\ BuzzerInit
  /\ clearedAt = 0
  /\ acked = FALSE
  /\ SensorInit
  /\ GpsInit

\* the program started with or without a persisted last known location
InitGps ==
  /\ now = StartNow
  /\ GPIOInit
  /\ AlertInit
  /\ ControlInit
  /\ LedInit
  /\ BuzzerInit
  /\ clearedAt = 0
  /\ acked = FALSE
  /\ SensorInit
  /\ \E stored \in {NoLocation, StoredLocation} : GpsInitWith(stored)

\* the program with a holdTime configured for the alert patterns
InitHold ==
  /\ now = StartNow
  /\ GPIOInit
  /\ AlertInit
  /\ ControlInit
  /\ LedInit
  /\ \E h \in {0, HoldMs} : BuzzerInitWith(h)
  /\ clearedAt = 0
  /\ acked = FALSE
  /\ SensorInit
  /\ GpsInit

NextGPIO ==
  \/ \E pin \in Pins : enqueue(pin)
  \/ \E w \in OpIds : DelayElapsed(w)
  \/ \E w \in OpIds : ExecSucceeds(w)
  \/ \E w \in OpIds : ExecFails(w)
  \/ \E w \in OpIds : BackoffElapsed(w)
  \/ clearAll
  \/ TickGPIO

SpecGPIO == Init /\ [][NextGPIO]_vars

AlertStep(maxEpisodes, maxTicks) ==
  \/ \E newLevel \in Levels : updateAlertLevel(newLevel, maxEpisodes)
  \/ PersistenceTimerFires
  \/ \E e \in Episodes : ContactsResolved(e)
  \/ \E e \in Episodes : SendReturns(e)
  \/ \E e \in Episodes : CollaboratorThrows(e)
  \/ TickAlert(maxTicks)

NextAlert == AlertStep(MaxEpisodes, MaxTicks)

\* the alert manager choosing the recipients of its dispatches
NextRecipients ==
  \/ \E newLevel \in Levels : updateAlertLevel(newLevel, MaxEpisodes)
  \/ PersistenceTimerFires
  \/ \E e \in Episodes : ContactsResolvedFrom(e)
  \/ \E e \in Episodes : SendReturns(e)
  \/ \E e \in Episodes : CollaboratorThrows(e)
  \/ TickAlert(MaxTicks)

SpecRecipients == Init /\ [][NextRecipients]_vars

NextAlertDeep == AlertStep(DeepEpisodes, DeepTicks)

SpecAlert == Init /\ [][NextAlert]_vars

SpecAlertDeep == Init /\ [][NextAlertDeep]_vars

\* one evaluation of the two channels, over the whole grid of readings
NextFusion ==
  \/ preheatCompleted
  \/ \E mq6 \in PpmGrid, mq2 \in PpmGrid : readSensorData(mq6, mq2, 1)

SpecFusion == Init /\ [][NextFusion]_vars

\* the control loop with the alert manager, the LEDs and the buzzer
NextControl ==
  \/ preheatCompleted
  \/ \E ppm \in ControlPpm : readSensorData(ppm, ppm, MaxPolls)
  \/ handleAlertLevelChange
  \/ emitEvent
  \/ \E pin \in Colors : ledWriteDone(pin)
  \/ buzzerWriteDone(MaxTimers)
  \/ stepTimerFires(MaxTimers)

SpecControl == Init /\ [][NextControl]_vars

\* the control loop with a configured hold time and the operator's
\* acknowledgeAlert command
NextOperator ==
  \/ \E ppm \in ControlPpm : readSensorData(ppm, ppm, OperatorPolls)
  \/ preheatCompleted
  \/ handleAlertLevelChange
  \/ emitEvent
  \/ \E pin \in Colors : ledWriteDone(pin)
  \/ buzzerWriteDone(MaxTimers)
  \/ stepTimerFires(MaxTimers)
  \/ acknowledgeAlert

SpecOperator == InitHold /\ [][NextOperator]_vars

\* the BuzzerController alone, called in any order
NextBuzzer ==
  \/ \E p \in PatternNames : startCall(p, MaxCalls)
  \/ stopCall(MaxCalls)
  \/ startHoldTimer(MaxCalls)
  \/ holdTimerFires
  \/ buzzerWriteDone(MaxTimers)
  \/ stepTimerFires(MaxTimers)
  \/ TickBuzzer(MaxHoldTicks)

SpecBuzzer == InitHold /\ [][NextBuzzer]_vars

\* the polling loop with reads that may fail
NextReadFailure ==
  \/ preheatCompleted
  \/ \E r6, r2 \in Reads : readSensorDataWith(r6, r2, MaxPolls)
  \/ handleAlertLevelChange
  \/ emitEvent

SpecReadFailure == Init /\ [][NextReadFailure]_vars

\* the GPS service decoding the lines of the serial parser
NextGps ==
  \/ connectToGPS
  \/ portOpened
  \/ handleDisconnect
  \/ portClosed
  \/ \E s \in Sentences : processNMEASentence(s)
  \/ savePersistedLocation

SpecGps == InitGps /\ [][NextGps]_vars

\* the GPS service feeding the position of the notifications
NextNotify ==
  \/ connectToGPS
  \/ portOpened
  \/ \E s \in NotifySentences : processNMEASentence(s)
  \/ gpsDataEmitted
  \/ savePersistedLocation
  \/ staleCheck
  \/ TickGps(MaxNotifyTicks)

SpecNotify == InitGps /\ [][NextNotify]_vars

\* the GPS service remembering positions over shutdown and restart
NextPersist ==
  \/ connectToGPS
  \/ portOpened
  \/ \E s \in PersistSentences : processNMEASentence(s)
  \/ savePersistedLocation
  \/ shutdown
  \/ shutdownSaved
  \/ shutdownClosed
  \/ portClosed
  \/ loadPersistedLocation
  \/ staleCheck
  \/ TickGps(MaxPersistTicks)

SpecPersist == InitGps /\ [][NextPersist]_vars

\* the connection of the GPS service: attempts, failures, port events,
\* reconnect timer and shutdown
NextConnect ==
  \/ connectToGPS
  \/ portOpened
  \/ connectFailed
  \/ reconnectTimerFires
  \/ handleDisconnect
  \/ portClosed
  \/ shutdown
  \/ shutdownSaved
  \/ shutdownClosed
  \/ TickConnect(MaxConnectTicks)

SpecConnect == InitGps /\ [][NextConnect]_vars

\* the GPS service and its stale check as time passes
NextStale ==
  \/ connectToGPS
  \/ portOpened
  \/ handleDisconnect
  \/ portClosed
  \/ \E s \in StaleSentences : processNMEASentence(s)
  \/ savePersistedLocation
  \/ staleCheck
  \/ TickGps(MaxGpsTicks)

SpecStale == InitGps /\ [][NextStale]_vars

\* one GasSensor, called in any order
NextSensor ==
  \/ initialize(MaxInits)
  \/ cleanup
  \/ preheatTimerFires
  \/ \E v \in Voltages : read(v)
  \/ \E r \in CalibrationInputs : calibrate(r)
  \/ autoCalibrate
  \/ \E v \in CleanAirVoltages : autoCalibrateRead(v)
  \/ autoCalibrateFinish
  \/ TickSensor(MaxSensorTicks)

SpecSensor == Init /\ [][NextSensor]_vars

\* the control loop alone: the writes of the LEDs and the buzzer stay queued
NextLoop ==
  \/ preheatCompleted
  \/ \E ppm \in ControlPpm : readSensorData(ppm, ppm, MaxPolls)
  \/ handleAlertLevelChange
  \/ emitEvent

SpecLoop == Init /\ [][NextLoop]_vars

\* ------------------------------------------------------------ GPIOQueue
InFlight(p) == {w \in OpIds : workers[w].pc = "exec" /\ workers[w].pin = p}

Settled(o) == ops[o].state \in {"resolved", "rejected", "cleared"}

\* C1: at most one executeOperation is in flight on any pin, whatever the
\* interleaving of enqueue, completion, failure, backoff and clearAll.
C1_OneInFlightPerPin == \A p \in Pins : Cardinality(InFlight(p)) <= 1

\* C2: an operation is executing on a pin only when every operation
\* enqueued before it on that pin has been resolved or rejected.
C2_FifoPerPin ==
  \A w \in OpIds :
    workers[w].pc = "exec" =>
      \A o \in OpIds :
        (o < workers[w].op /\ ops[o].pin = workers[w].pin) => Settled(o)

\* C3: an operation rejected because its attempts failed has been executed
\* 3 times (2 retries), and is not rejected by an earlier failed attempt.
C3_RejectedAfterThreeAttempts ==
  \A o \in OpIds : ops[o].state = "rejected" => attempts[o] = 3

\* C4: every execution attempt on a pin starts at least minDelay after the
\* end (success or final failure) of the previous operation on that pin.
C4_MinDelayAfterPreviousEnd ==
  [][\A o \in OpIds :
        attempts'[o] # attempts[o] =>
          LET p == ops'[o].pin
          IN  lastEnd'[p] = 0 \/ now' - lastEnd'[p] >= minDelay]_vars

\* C5: clearAll rejects every queued operation and empties every queue, and
\* an operation enqueued after a clearAll is handled as by a fresh queue: it
\* leaves its queue only once it has been settled.
C5_ClearAllLeavesQueueFresh ==
  [][/\ clears' # clears =>
          /\ \A p \in Pins : queues'[p] = <<>>
          /\ \A p \in Pins : \A i \in 1..Len(queues[p]) :
                ops'[queues[p][i]].state # "pending"
     /\ \A o \in OpIds :
          (clearMark' # 0 /\ o >= clearMark' /\ ops'[o].state = "pending") =>
            \E i \in 1..Len(queues'[ops'[o].pin]) :
               queues'[ops'[o].pin][i] = o]_vars

\* ---------------------------------------------------------- AlertManager
\* C6: an episode that ends (level change) less than SMS_TRIGGER_DELAY after
\* it began never has its persistence timer fire and never gets a dispatch.
C6_DebouncedEpisodeNeverFires ==
  \A x \in shortEnded :
    /\ x.ep \notin fired
    /\ \A s \in sends : s.ep # x.ep

\* C6 witness: a short episode has ended and the clock has passed the
\* deadline its timer had.
C6_ShortEpisodeOutlived == \E x \in shortEnded : now >= x.deadline

\* C7: an episode whose timer firing was skipped for cooldown gets no
\* dispatch and keeps smsTriggered false, and lastSMSTime is unchanged by
\* every level change.
C7_CooldownSkipStaysUntriggered ==
  [][/\ \A k \in cooldownSkips' :
          /\ k.ep = curEp' => ~detectionState'.smsTriggered
          /\ \A s \in sends' : s.ep # k.ep
     /\ detectionState'.level # detectionState.level =>
          detectionState'.lastSMSTime = detectionState.lastSMSTime]_vars

\* C8: any two sendGasLeakAlert calls for the same level are at least
\* SMS_COOLDOWN apart.
C8_DispatchesCooldownApart ==
  \A s1, s2 \in sends :
    (s1 # s2 /\ s1.level = s2.level /\ s1.time <= s2.time) =>
      s2.time - s1.time >= SMS_COOLDOWN

\* C9: a firing for level L is skipped for cooldown only when the last
\* successful dispatch was for the same level L.
C9_CooldownScopedToLevel ==
  \A k \in cooldownSkips : k.lastLevel = k.level

\* C10 as stated: smsTriggered goes from true to false only when the level
\* returns to normal.
C10_ResetOnlyOnNormal ==
  [][(detectionState.smsTriggered /\ ~detectionState'.smsTriggered) =>
        detectionState'.level = "normal"]_vars

\* C10 amended: smsTriggered goes from true to false only on a level change
\* (to normal or to another non-normal level); an update with the same
\* level leaves it as it was.
C10_ResetOnlyOnLevelChange ==
  [][(detectionState.smsTriggered /\ ~detectionState'.smsTriggered) =>
        detectionState'.level # detectionState.level]_vars

\* C10 witness: a change between two non-normal levels has cleared a true
\* smsTriggered.
C10_ResetByOtherLevel ==
  lastReset = "toOther" /\ detectionState.level # "normal"

SendsFor(e) == {s \in sends : s.ep = e}

\* C11: smsTriggered becomes true and lastSMSTime changes only in the step
\* in which a sendGasLeakAlert call returns; a timer firing (skipped or
\* not), a resolution with zero contacts and a throwing collaborator leave
\* both unchanged; and an episode gets at most one firing and one dispatch.
C11_MarkedOnlyOnSuccessfulDispatch ==
  [][/\ (\/ detectionState'.smsTriggered /\ ~detectionState.smsTriggered
         \/ detectionState'.lastSMSTime # detectionState.lastSMSTime) =>
          \E e \in Episodes :
            /\ trig[e].pc = "send" /\ trig'[e].pc = "none"
            /\ detectionState'.smsTriggered
            /\ detectionState'.lastSMSTime = now
     /\ fired' # fired =>
          /\ detectionState' = detectionState
          /\ \A t \in timers' : t.id \notin fired'
     /\ \A e \in Episodes :
          /\ Cardinality(SendsFor(e)') <= 1
          /\ (SendsFor(e) # {} /\ trig[e].pc = "none") =>
                (trig'[e].pc = "none" /\ SendsFor(e)' = SendsFor(e))]_vars

\* C11 witness: the timer of the current episode fired, its invocation is
\* over without a dispatch having succeeded, and the state is unmarked.
C11_FiringWithoutSuccess ==
  /\ curEp \in fired
  /\ trig[curEp].pc = "none"
  /\ ~detectionState.smsTriggered
  /\ detectionState.lastSMSTime = 0

\* C12: at most one persistence timer is pending, the pending one is the
\* timer of the current episode (the earlier one was cancelled), and none is
\* pending while the level is normal.
C12_OnePersistenceTimer ==
  /\ Cardinality(timers) <= 1
  /\ \A t \in timers : t.id = curEp /\ t.id = persistenceTimer
                       /\ t.level = detectionState.level
  /\ detectionState.level = "normal" => timers = {}

\* C12 witness: a second episode began while the first one's timer was
\* still pending; only the second one's timer is pending.
C12_TimerReplaced ==
  /\ epCount >= 2
  /\ (epCount - 1) \notin fired
  /\ \E t \in timers : t.id = epCount

\* C13: a sustained episode whose firing was skipped for cooldown still gets
\* a dispatch attempt once the cooldown is over: when the cooldown has
\* expired in such an episode, a dispatch was attempted, is under way, or a
\* persistence timer is pending that can still start one.
C13_SustainedDangerNotified ==
  \A k \in cooldownSkips :
    (k.ep = curEp /\ ~detectionState.smsTriggered
       /\ ~CooldownActive(detectionState)) =>
      \/ SendsFor(k.ep) # {}
      \/ trig[k.ep].pc # "none"
      \/ timers # {}

\* C14: every pair of readings whose fused assessment has maxPpm = 250 and
\* agreement EXCELLENT is classified critical by determineSmartAlertLevel.
C14_ExcellentAt250IsCritical ==
  (polls > 0 /\ sensorData.fused.maxPpm = 250
     /\ sensorData.fused.agreement = "EXCELLENT")
    => currentAlertLevel = "critical"

\* C15: the level of an evaluated reading is its band: normal for maxPpm
\* 0-99, low for 100-299, critical for 300 and above; in particular no
\* reading with maxPpm below 300 is classified critical.
C15_LevelIsThresholdBand ==
  (polls > 0 /\ sensorData.fused.gasType # "none") =>
    LET maxPpm == sensorData.fused.maxPpm
    IN /\ (maxPpm <= 99 => currentAlertLevel = "normal")
       /\ ((100 <= maxPpm /\ maxPpm <= 299) => currentAlertLevel = "low")
       /\ (300 <= maxPpm => currentAlertLevel = "critical")

\* immediates that stand for a detected change not yet emitted
PendingChanges ==
  {i \in DOMAIN immediates : immediates[i].kind \in {"handle", "emit"}}

\* C16: a level change is handled and emitted exactly when the level computed
\* for a poll differs from currentAlertLevel: the events emitted are, in
\* order, the changes detected, each change is pending or emitted exactly
\* once, every event has level # previousLevel, and its previousLevel is the
\* level of the event before it (normal for the first).
C16_EventsAreTheLevelChanges ==
  /\ Len(events) + Cardinality(PendingChanges) = Len(changes)
  /\ \A i \in DOMAIN events :
       /\ events[i] = changes[i]
       /\ events[i].level # events[i].previousLevel
       /\ events[i].previousLevel =
            (IF i = 1 THEN "normal" ELSE events[i - 1].level)
  /\ currentAlertLevel =
       (IF changes = <<>> THEN "normal" ELSE changes[Len(changes)].level)
  /\ (sensorData.fused.gasType # "none" =>
        currentAlertLevel = determineSmartAlertLevel(sensorData.fused))

\* C16 witness: two events were emitted and a later poll computed the
\* current level again, which added no change
C16_ChangesAndQuietPoll ==
  /\ Len(events) = 2
  /\ immediates = <<>>
  /\ polls > Len(changes)
  /\ preheated

\* C17: while the polled level stays at the same non-normal level the
\* detection state advances with every poll: duration is now - startTime and
\* detectionCount is one more than the polls since the detection started.
C17_DetectionAdvancesEveryPoll ==
  (immediates = <<>> /\ currentAlertLevel # "normal"
     /\ detectionState.level = currentAlertLevel) =>
    /\ detectionState.duration = now - detectionState.startTime
    /\ detectionState.detectionCount =
         1 + (now - detectionState.startTime) \div readingIntervalMs

\* every actuator write has completed, no pattern timer is pending and no
\* setImmediate callback is left
ActuatorsQuiet ==
  /\ immediates = <<>>
  /\ ledCalls = {}
  /\ buzzerQueue = <<>>
  /\ stepTimers = {}

\* the buzzer has no active pattern and its output is off
BuzzerSilent == currentPattern = "null" /\ buzzerOut = 0

\* only the LED of colour c is lit
OnlyLit(c) == \A x \in Colors : ledPins[x] = (IF x = c THEN 1 ELSE 0)

\* C18: after a transition to normal, once every actuator operation has
\* completed, the buzzer has no active pattern, its output is off and the
\* LED is green, whatever the timing of the earlier start() and stop() calls.
C18_NormalSilencesAndTurnsGreen ==
  (ActuatorsQuiet /\ currentAlertLevel = "normal" /\ changes # <<>>) =>
    (BuzzerSilent /\ OnlyLit("green"))

\* C19: once every setColor call has returned, at most one LED is lit, and
\* the lit LED and currentColor are those of the most recent setColor call.
C19_LastColorAloneIsLit ==
  ledCalls = {} => (OnlyLit(lastColor) /\ currentColor = lastColor)

\* step callbacks of the buzzer pattern that are pending or running
StepChains ==
  Cardinality(stepTimers)
    + Cardinality({i \in DOMAIN buzzerQueue :
                     buzzerQueue[i].kind = "stepOff"})

\* C20: no step callback scheduled or running before a stop() resolved
\* advances the pattern or schedules a timer after it, and at most one chain
\* of step timers is live at any time.
C20_StopEndsStepChain == ~staleStep /\ StepChains <= 1

\* ------------------------------------------------------------------- C21
\* Everything of the BuzzerController except the call history.
BuzzerState ==
  <<buzzerOut, isActive, currentPattern, patternStep, buzzerQueue, stepTimers,
    timerCount, stopEpoch, staleStep, isHolding, holdTimer, holdTime,
    alertStartTime>>

\* The step is a call of start().
StartIsCalled == calls'.n = calls.n + 1 /\ calls'.op = "start"

\* C21: start(p) while p is the active pattern and the controller is not in
\* the hold phase leaves currentPattern, patternStep, alertStartTime and the
\* pending step timers as they are and enqueues no hardware write; start()
\* with a name that is not a pattern throws and changes no state.
C21_StartOfActivePatternIsIdempotent ==
  [][StartIsCalled =>
       /\ (currentPattern = calls'.arg /\ ~isHolding) =>
             UNCHANGED <<currentPattern, patternStep, alertStartTime,
                         stepTimers, buzzerQueue, buzzerOut>>
       /\ calls'.arg \notin DOMAIN patterns =>
             calls'.threw /\ UNCHANGED BuzzerState]_vars

\* start() was called for the pattern that is playing, outside the hold
\* phase, and the pattern's step timer is still pending.
C21_StartedTwice ==
  /\ calls.op = "start"
  /\ calls.arg = calls.active
  /\ calls.arg \in DOMAIN patterns
  /\ ~calls.holding
  /\ currentPattern = calls.arg
  /\ stepTimers # {}

C23_AcknowledgedBuzzerStaysSilent ==
  (acked /\ buzzerQueue = <<>> /\ stepTimers = {}) => BuzzerSilent

\* ------------------------------------------------------------------- C24
\* C24: after any sequence of initialize() and cleanup() calls, read()
\* returns a reading only if at least preheatTime has elapsed since the most
\* recent initialize().
C24_ReadOnlyAfterPreheatTime ==
  reading.ok => reading.elapsed >= preheatTime

\* ------------------------------------------------------------------- C25
\* C25: calibrate() and autoCalibrate() called while the sensor is
\* uninitialized or still preheating fail to the caller and leave
\* calibration.ro and calibration.lastCalibrated unchanged.
C25_CalibrationBeforeReadyIsRejected ==
  (sensorCall.op \in {"calibrate", "autoCalibrate"} /\ ~sensorCall.ready)
    => (sensorCall.threw /\ ~sensorCall.changed)

\* ------------------------------------------------------------------- C26
\* C26: the baseline resistance calibration.ro is greater than 0 in every
\* reachable state, whatever value is passed to calibrate().
C26_BaselineResistanceIsPositive == calibration.ro > 0

\* ------------------------------------------------------------------- C27
\* C27: a poll in which read() of a channel fails still completes, and its
\* fused assessment and alert level are those of the channels' last valid
\* readings, which this.sensorData.mq6 / mq2 hold (zero before any).
C27_FailedReadUsesLastValidReading ==
  sensorData.fused # NoFused =>
    /\ sensorData.fused = evaluateSensorData(sensorData.mq6, sensorData.mq2)
    /\ currentAlertLevel = determineSmartAlertLevel(
                             evaluateSensorData(sensorData.mq6,
                                                sensorData.mq2))

\* ------------------------------------------------------------------- C28
\* The good-fix gate: fix true, satellites >= 4, fix quality >= 1, hdop < 5
\* and accuracy < 50 m, hdop and accuracy being known.
GoodFixGate(data) ==
  /\ data.fix
  /\ data.satellites >= 4
  /\ data.fixQuality >= 1
  /\ data.hdop > 0 /\ data.hdop < 50
  /\ data.accuracy > 0 /\ data.accuracy < 50

\* C28: lastKnownLocation is replaced only by the position of a decoded GGA
\* sentence that passes the good-fix gate, and every replacement schedules a
\* write of the persistence file; a sentence with 3 satellites never changes
\* lastKnownLocation.
C28_OnlyGoodFixesAreRemembered ==
  [][/\ lastKnownLocation' # lastKnownLocation =>
          /\ gpsSentence'.type = "GGA" /\ gpsSentence'.decoded
          /\ GoodFixGate(currentData')
          /\ lastKnownLocation'.latitude = currentData'.latitude
          /\ lastKnownLocation'.longitude = currentData'.longitude
          /\ lastKnownLocation'.satellites = currentData'.satellites
          /\ saves' > 0
     /\ (gpsSentence'.type = "GGA" /\ gpsSentence'.satellites = 3) =>
          lastKnownLocation' = lastKnownLocation]_vars

\* A GGA sentence has just replaced the last known location and its write
\* is scheduled.
C28_GoodFixRemembered ==
  /\ gpsSentence.type = "GGA"
  /\ gpsSentence.promoted
  /\ lastKnownLocation.satellites = 4
  /\ lastKnownLocation.latitude = currentData.latitude
  /\ saves = 1

\* ------------------------------------------------------------------- C29
\* C29: a position getCurrentLocation() returns with source 'live' passes
\* the good-fix gate.
C29_LivePositionsPassTheGate ==
  getCurrentLocation = "live" => GoodFixGate(currentData)

\* ------------------------------------------------------------------- C30
\* C30: while connected, the fix does not stay valid when no decoded
\* sentence arrived for 30 s: by the stale check after that, at most one
\* check period later, currentData.fix is false, whatever undecoded lines
\* arrived meanwhile.
C30_StaleWithoutDecodedSentence ==
  (isConnected /\ currentData.fix) =>
    now - lastDecodedTime <= staleAfter + staleCheckPeriod

\* C30, as the code has it: while connected, a position is live only if a
\* line, decoded or not, arrived within the last 30 s plus one period of the
\* stale check; and a fix that becomes invalid leaves lastKnownLocation as it
\* is.
C30_StaleWithoutAnyLine ==
  /\ []((isConnected /\ getCurrentLocation = "live") =>
          now - lastNMEATime <= staleAfter + staleCheckPeriod)
  /\ [][(currentData.fix /\ ~currentData'.fix) =>
          lastKnownLocation' = lastKnownLocation]_vars

\* No line arrived for more than 30 s on an open connection: the fix that
\* was live is invalid and the cached location is what is returned.
C30_FixWentStale ==
  /\ isConnected
  /\ lastNMEATime # 0
  /\ now - lastNMEATime > staleAfter
  /\ currentData.latitude # null
  /\ ~currentData.fix
  /\ lastKnownLocation.timestamp = lastNMEATime
  /\ getCurrentLocation = "cached"

\* C31: the delays of the reconnect timers scheduled since the last
\* successful connection grow: the second one is twice the first (the base
\* delay doubled).
C31_ReconnectDelayDoubles ==
  Len(reconnectDelays) >= 2 => reconnectDelays[2] = 2 * reconnectDelays[1]

\* C32: connectionAttempts never exceeds maxConnectionAttempts; once it has
\* reached it and the last attempt has failed, no reconnect timer is pending
\* and no connection attempt is queued; while the port of a successful
\* connection is open the counter is 0.
C32_NoReconnectAfterMaxAttempts ==
  /\ connectionAttempts <= maxConnectionAttempts
  /\ (connectionAttempts = maxConnectionAttempts /\ connecting = 0)
       => (reconnectTimer = 0 /\ queuedConnects = 0)
  /\ port = "open" => connectionAttempts = 0

\* The tenth consecutive attempt has failed while the service is running,
\* after nine reconnect timers, and nothing is scheduled.
C32_GaveUp ==
  /\ connectionAttempts = maxConnectionAttempts
  /\ connecting = 0
  /\ ~isShuttingDown
  /\ Len(reconnectDelays) = maxConnectionAttempts - 1
  /\ reconnectTimer = 0

\* C40: no serial port is opened after shutdown() was called, and once
\* shutdown() has completed no reconnect timer is pending and no port is
\* open.
C40_QuietAfterShutdown ==
  /\ ~openedLate
  /\ shutdownPc = "done" => (reconnectTimer = 0 /\ openPorts = 0)

\* C33: getCurrentLocation() returns the live fix whenever currentData has a
\* fix and coordinates, otherwise the cached location whenever there is one,
\* whose age is not negative, and null only when there is neither.
C33_LiveThenCachedThenNull ==
  LET live == /\ currentData.fix
              /\ currentData.latitude # null
              /\ currentData.longitude # null
  IN /\ live => getCurrentLocation = "live"
     /\ (~live /\ lastKnownLocation # NoLocation) =>
          (getCurrentLocation = "cached" /\ getLocationAge >= 0)
     /\ getCurrentLocation = "null" <=> (~live /\ lastKnownLocation = NoLocation)

\* C34: the lastKnownLocation that loadPersistedLocation() leaves has the
\* latitude, longitude and accuracy of the location in the file it read,
\* and its age is not negative.
C34_SavedLocationIsRestored ==
  restored.file # <<>> =>
    /\ restored.location.latitude = restored.file[1].latitude
    /\ restored.location.longitude = restored.file[1].longitude
    /\ restored.location.accuracy = restored.file[1].accuracy
    /\ now - restored.location.timestamp >= 0

\* C35: once the hardware manager has received the position of the position
\* service, the location of a notification assembled from it is the live fix
\* when the service has one, the cached fix marked as last known with its
\* age when it has only that, and the manual address only when it has
\* neither.
C35_LiveThenLastKnownThenAddress ==
  (gpsData.source # "none" /\ dataEvents = 0) =>
    \A address \in BOOLEAN :
      LET location == alertLocation(gpsData, address)
      IN /\ gpsData.source = "live" => location.text = "GPS"
         /\ gpsData.source = "cached" =>
              (location.text = "GPS (last known)" /\ location.aged)
         /\ location.text = "address" => getCurrentLocation = "null"

\* C36: a dispatch for level low goes to the profile contact when a phone is
\* set and to every internal contact, in that order, and to no external
\* contact; a dispatch for level critical goes to the profile contact when a
\* phone is set, to every internal and to every external contact.
C36_RecipientsByLevel ==
  \A s \in sends :
    LET profile == IF s.repo.phone THEN <<ProfileContact>> ELSE <<>>
    IN /\ s.level = "low" =>
            /\ s.contacts = profile \o s.repo.internal
            /\ \A i \in 1..Len(s.contacts) : s.contacts[i].type # "EXTERNAL"
       /\ s.level = "critical" =>
            s.contacts = profile \o s.repo.internal \o s.repo.external

\* A low alert was dispatched to the profile contact and two internal
\* contacts while an external contact was in the repository.
C36_LowDispatchedWithExternalOnFile ==
  \E s \in sends :
    /\ s.level = "low"
    /\ s.repo.phone
    /\ s.repo.external # <<>>
    /\ Len(s.contacts) = 3

\* C39: smsTriggered is true only in a non-normal episode for which
\* sendGasLeakAlert was called; a dispatch of an earlier episode never marks
\* the current one, and smsTriggered is never true while the level is
\* normal.
C39_TriggeredOnlyByOwnDispatch ==
  detectionState.smsTriggered =>
    /\ detectionState.level # "normal"
    /\ curEp # 0
    /\ \E s \in sends : s.ep = curEp

\* confidence c is lower than confidence d
confidenceBelow(c, d) == c.num * d.den < d.num * c.den

\* C37 as stated: the confidence of an evaluated pair of readings lies in
\* [0, 100], and no pair with the same lower reading and a higher reading at least as
\* large, or with the same higher reading and a lower reading at least as
\* large, has a lower confidence.
C37_ConfidenceIsMonotone ==
  (polls > 0 /\ sensorData.fused.gasType # "none") =>
    LET hi == sensorData.fused.maxPpm
        lo == sensorData.fused.minPpm
        c == sensorData.fused.confidence
    IN /\ 0 <= c.num /\ c.num <= 100 * c.den
       /\ \A p \in PpmGrid :
            /\ p >= hi => ~confidenceBelow(calculateConfidence(p, lo), c)
            /\ (lo <= p /\ p <= hi) =>
                 ~confidenceBelow(calculateConfidence(hi, p), c)

\* C37 amended: the confidence of an evaluated pair of readings lies in
\* [0, 100], and no pair whose readings are both at least as large and whose
\* agreement ratio min / max is at least as large has a lower confidence; in
\* particular raising the lower reading with the higher one fixed never
\* lowers it.
C37_ConfidenceFollowsLevelAndAgreement ==
  (polls > 0 /\ sensorData.fused.gasType # "none") =>
    LET hi == sensorData.fused.maxPpm
        lo == sensorData.fused.minPpm
        c == sensorData.fused.confidence
    IN /\ 0 <= c.num /\ c.num <= 100 * c.den
       /\ \A p \in PpmGrid, q \in PpmGrid :
            (q <= p /\ p >= hi /\ q >= lo /\ q * hi >= lo * p) =>
              ~confidenceBelow(calculateConfidence(p, q), c)

\* The readings 10 and 20 were evaluated: the confidence is lower than that
\* of the readings 10 and 10, the agreement having fallen from 1 to 1/2.
C37_HigherReadingLowerConfidence ==
  /\ polls > 0
  /\ sensorData.fused.minPpm = 10
  /\ sensorData.fused.maxPpm = 20
  /\ confidenceBelow(sensorData.fused.confidence, calculateConfidence(10, 10))

\* C38: an operation that is not settled is still going to be: it is in the
\* queue of its pin, where a processQueue loop finds it, or a processQueue
\* loop holds it and resolves or rejects it when its write ends. (The finite
\* form of the liveness claim: an operation that is in no queue and held by
\* no loop is never settled, clearAll() rejecting queued operations only.)
C38_PendingOperationIsQueuedOrHeld ==
  \A o \in OpIds :
    ops[o].state = "pending" =>
      \/ \E i \in 1..Len(queues[ops[o].pin]) : queues[ops[o].pin][i] = o
      \/ \E w \in OpIds : workers[w].pc # "idle" /\ workers[w].op = o

====
